---- MODULE Spec2Model ----
(***************************************************************************)
(* function-status-transformer: RunFunction and the matching and           *)
(* transformation helpers it calls (fn.go of the current version).         *)
(*                                                                         *)
(* Strings that the code only compares for equality (condition types,      *)
(* reasons, keys of the group map) are TLA+ strings.  Strings that the     *)
(* code searches with a regular expression or renders through a template   *)
(* (condition messages, resource keys, patterns, templates) are sequences  *)
(* of tokens, so that searching, capturing and rendering are computed.     *)
(* Pointers (to string, bool, ...) are records [nil, v].                   *)
(***************************************************************************)
EXTENDS Integers, Sequences, FiniteSets, TLC

\* Largest number of statusConditionHooks in one request.
MaxHooks == 2

----------------------------------------------------------------------------
(* Pointers, maps and small helpers *)

Nil(zero) == [nil |-> TRUE, v |-> zero]
PtrTo(x) == [nil |-> FALSE, v |-> x]
Deref(p, def) == IF p.nil THEN def ELSE p.v

EmptyMap == [k \in {} |-> <<>>]

\* maps.Copy with the entries of dst kept.
MapsCopyKeep(dst, src) ==
  [k \in (DOMAIN dst) \cup (DOMAIN src) |-> IF k \in DOMAIN dst THEN dst[k] ELSE src[k]]

\* maps.Copy(dst, src): every entry of src overwrites dst.
MapsCopy(dst, src) ==
  [k \in (DOMAIN dst) \cup (DOMAIN src) |-> IF k \in DOMAIN src THEN src[k] ELSE dst[k]]

NoErr == <<>>
\* errors.Wrap(err, msg): msg + ": " + err.Error()
Wrap(err, msg) == msg \o err

SeqsUpTo(S, n) == UNION {[1..k -> S] : k \in 0..n}

RECURSIVE Perms(_)
\* Every enumeration order of a finite set (the iteration orders of a Go map).
Perms(S) ==
  IF S = {} THEN {<<>>}
  ELSE UNION {{<<x>> \o p : p \in Perms(S \ {x})} : x \in S}

----------------------------------------------------------------------------
(* Constants of fn.go *)

typeFunctionSuccess == "StatusTransformationSuccess"
reasonAvailable == "Available"
reasonInputFailure == "InputFailure"
reasonMatchFailure == "MatchFailure"
reasonSetConditionFailure == "SetConditionFailure"
compositeResourceKey == <<"function-status-transformer.reserved-keys.", "composite-resource">>

AnyResourceMatchesAnyCondition == "AnyResourceMatchesAnyCondition"
AnyResourceMatchesAllConditions == "AnyResourceMatchesAllConditions"
AllResourcesMatchAnyCondition == "AllResourcesMatchAnyCondition"
AllResourcesMatchAllConditions == "AllResourcesMatchAllConditions"
TargetComposite == "Composite"
TargetCompositeAndClaim == "CompositeAndClaim"
EventTypeNormal == "Normal"
EventTypeWarning == "Warning"

----------------------------------------------------------------------------
(* regexp: patterns are token sequences.  A token is a literal, a group    *)
(* "(...)" wrapping ".+", or a token the regexp parser rejects.            *)

InvalidRegexTokens == {"(?!)"}
\* group token -> its name in SubexpNames() ("" for an unnamed group)
GroupTokens == ("(?P<Error>.+)" :> "Error") @@ ("(?P<Other>.+)" :> "Other") @@ ("(.+)" :> "")

\* regexp.Compile(p) returns an error
CompileFails(p) == \E i \in 1..Len(p) : p[i] \in InvalidRegexTokens

IsGroup(tok) == tok \in DOMAIN GroupTokens
\* the literal tokens in front of the first group
LitLen(p) ==
  IF \E i \in 1..Len(p) : IsGroup(p[i])
  THEN (CHOOSE i \in 1..Len(p) : IsGroup(p[i]) /\ \A j \in 1..(i-1) : ~IsGroup(p[j])) - 1
  ELSE Len(p)
\* re.SubexpNames()[1:]
SubexpNames(p) == [i \in 1..(Len(p) - LitLen(p)) |-> GroupTokens[p[LitLen(p) + i]]]

\* The patterns modelled: literals followed by at most one trailing group.
\* The pattern matches at offset i of s when the literals occur there and
\* the group, if any, has at least one token left to take.
MatchesAt(p, s, i) ==
  /\ i + LitLen(p) - 1 <= Len(s)
  /\ SubSeq(s, i, i + LitLen(p) - 1) = SubSeq(p, 1, LitLen(p))
  /\ (Len(p) > LitLen(p) => i + LitLen(p) <= Len(s))

\* re.MatchString(s): unanchored search
MatchString(p, s) == \E i \in 1..(Len(s) + 1) : MatchesAt(p, s, i)

\* re.FindStringSubmatch(s)[1:] of the leftmost match, with found = (len(matches) > 0);
\* the greedy ".+" takes everything up to the end of s.
FindStringSubmatch(p, s) ==
  IF ~MatchString(p, s) THEN [found |-> FALSE, subs |-> <<>>]
  ELSE LET i == CHOOSE k \in 1..(Len(s) + 1) :
                  MatchesAt(p, s, k) /\ \A j \in 1..(k-1) : ~MatchesAt(p, s, j)
       IN [found |-> TRUE,
           subs |-> [g \in 1..(Len(p) - LitLen(p)) |-> SubSeq(s, i + LitLen(p), Len(s))]]

----------------------------------------------------------------------------
(* text/template: templates are token sequences.  A token is a literal, a  *)
(* field placeholder, a placeholder the parser rejects, or a placeholder   *)
(* whose execution fails (a field of a string).                            *)

MalformedTemplateTokens == {"{{ .Error }"}
ExecFailTemplateTokens == {"{{ .Error.Foo }}"}
\* placeholder token -> key of the values map
FieldTokens == ("{{ .Error }}" :> "Error") @@ ("{{ .Other }}" :> "Other")

ParseFails(t) == \E i \in 1..Len(t) : t[i] \in MalformedTemplateTokens
ExecuteFails(t) == \E i \in 1..Len(t) : t[i] \in ExecFailTemplateTokens

RECURSIVE Execute(_, _)
\* t.Execute(b, values): a key missing from the map prints "<no value>"
Execute(t, values) ==
  IF t = <<>> THEN <<>>
  ELSE (IF Head(t) \in DOMAIN FieldTokens
        THEN (IF FieldTokens[Head(t)] \in DOMAIN values
              THEN values[FieldTokens[Head(t)]] ELSE <<"<no value>">>)
        ELSE <<Head(t)>>) \o Execute(Tail(t), values)

\* templateMessage parsing and executing the template whatever values holds.
templateMessageAlwaysParses(msg, values) ==
  IF msg.nil THEN [msg |-> msg, err |-> NoErr]
  ELSE IF ParseFails(msg.v)
       THEN [msg |-> Nil(<<>>), err |-> <<"cannot parse template">>]
  ELSE IF ExecuteFails(msg.v)
       THEN [msg |-> Nil(<<>>), err |-> <<"cannot execute template">>]
  ELSE [msg |-> PtrTo(Execute(msg.v, values)), err |-> NoErr]

\* templateMessage(msg, values): the rendered message and the error
templateMessage(msg, values) ==
  IF msg.nil \/ DOMAIN values = {} THEN [msg |-> msg, err |-> NoErr]
  ELSE IF ParseFails(msg.v)
       THEN [msg |-> Nil(<<>>), err |-> <<"cannot parse template">>]
  ELSE IF ExecuteFails(msg.v)
       THEN [msg |-> Nil(<<>>), err |-> <<"cannot execute template">>]
  ELSE [msg |-> PtrTo(Execute(msg.v, values)), err |-> NoErr]

\* transformTarget(t)
transformTarget(t) ==
  IF Deref(t, TargetComposite) = TargetCompositeAndClaim
  THEN "TARGET_COMPOSITE_AND_CLAIM" ELSE "TARGET_COMPOSITE"

EmptyCondition ==
  [type |-> "", status |-> "STATUS_CONDITION_UNSPECIFIED", reason |-> "",
   target |-> "TARGET_UNSPECIFIED", message |-> Nil(<<>>)]

\* transformCondition with the error of templateMessage dropped.
transformConditionIgnoreErr(cs, templateValues) ==
  [c |-> [type |-> cs.condition.type, status |-> "STATUS_CONDITION_UNKNOWN",
          reason |-> cs.condition.reason, target |-> transformTarget(cs.target),
          message |-> templateMessage(cs.condition.message, templateValues).msg],
   err |-> NoErr]

\* transformCondition(cs, templateValues): the condition and the error
transformCondition(cs, templateValues) ==
  LET st == IF cs.condition.status = "True" THEN "STATUS_CONDITION_TRUE"
            ELSE IF cs.condition.status = "False" THEN "STATUS_CONDITION_FALSE"
            ELSE "STATUS_CONDITION_UNKNOWN"
      r == templateMessage(cs.condition.message, templateValues)
  IN IF r.err # NoErr THEN [c |-> EmptyCondition, err |-> r.err]
     ELSE [c |-> [type |-> cs.condition.type, status |-> st,
                  reason |-> cs.condition.reason,
                  target |-> transformTarget(cs.target), message |-> r.msg],
           err |-> NoErr]

EmptyResult ==
  [severity |-> "SEVERITY_UNSPECIFIED", reason |-> Nil(""),
   target |-> "TARGET_UNSPECIFIED", message |-> <<>>]

\* transformEvent taking every type other than Warning for Normal.
transformEventAnyType(ec, templateValues) ==
  LET ty == Deref(ec.event.type, EventTypeNormal)
      r == templateMessage(PtrTo(ec.event.message), templateValues)
  IN IF r.err # NoErr THEN [r |-> EmptyResult, err |-> r.err]
     ELSE [r |-> [severity |-> IF ty = EventTypeWarning THEN "SEVERITY_WARNING" ELSE "SEVERITY_NORMAL",
                  reason |-> ec.event.reason,
                  target |-> transformTarget(ec.target),
                  message |-> Deref(r.msg, <<>>)],
           err |-> NoErr]

\* transformEvent(ec, templateValues): the result and the error
transformEvent(ec, templateValues) ==
  LET ty == Deref(ec.event.type, EventTypeNormal)
      r == templateMessage(PtrTo(ec.event.message), templateValues)
  IN IF ty \notin {EventTypeNormal, EventTypeWarning}
     THEN [r |-> EmptyResult, err |-> <<"invalid type", ty, "must be one of [Normal, Warning]">>]
     ELSE IF r.err # NoErr THEN [r |-> EmptyResult, err |-> r.err]
     ELSE [r |-> [severity |-> IF ty = EventTypeNormal THEN "SEVERITY_NORMAL" ELSE "SEVERITY_WARNING",
                  reason |-> ec.event.reason,
                  target |-> transformTarget(ec.target),
                  message |-> Deref(r.msg, <<>>)],
           err |-> NoErr]

\* response.ConditionFalse(rsp, type, reason).WithMessage(msg)
ConditionFalse(type, reason, msg) ==
  [type |-> type, status |-> "STATUS_CONDITION_FALSE", reason |-> reason,
   target |-> "TARGET_COMPOSITE", message |-> PtrTo(msg)]
\* response.ConditionTrue(rsp, type, reason)
ConditionTrue(type, reason) ==
  [type |-> type, status |-> "STATUS_CONDITION_TRUE", reason |-> reason,
   target |-> "TARGET_COMPOSITE", message |-> Nil(<<>>)]

----------------------------------------------------------------------------
(* Conditioned objects and the condition predicate *)

\* A default condition of status True.
DefaultConditionTrue == [status |-> "True", reason |-> "", message |-> <<>>]

\* xpv1.Condition{Type: ct, Status: corev1.ConditionUnknown}
DefaultCondition == [status |-> "Unknown", reason |-> "", message |-> <<>>]

\* co.GetCondition(type): the condition of that type, or an Unknown one
GetCondition(co, type) ==
  IF type \in DOMAIN co.conditions THEN co.conditions[type] ELSE DefaultCondition

MatchResult(m, cg, err) == [m |-> m, cg |-> cg, err |-> err]

\* cmGroups[re.SubexpNames()[i]] = matches[i], for i in increasing order
CmGroups(names, subs) ==
  [n \in {names[i] : i \in 1..Len(names)} |->
     subs[CHOOSE i \in 1..Len(names) :
            names[i] = n /\ \A j \in (i+1)..Len(names) : names[j] # n]]

\* Lines 383-394 of match: the outcome of the search f of the message.
MatchFound(cm, f) ==
  IF ~f.found THEN MatchResult(FALSE, EmptyMap, NoErr)
  ELSE MatchResult(TRUE, CmGroups(SubexpNames(cm.message.v), f.subs), NoErr)

\* match with the status compared even when cm.Status is nil.
MatchConditionStatusRequired(cm, c) ==
  IF ~cm.reason.nil /\ cm.reason.v # c.reason THEN MatchResult(FALSE, EmptyMap, NoErr)
  ELSE IF cm.status.v # c.status THEN MatchResult(FALSE, EmptyMap, NoErr)
  ELSE IF cm.message.nil THEN MatchResult(TRUE, EmptyMap, NoErr)
  ELSE IF CompileFails(cm.message.v)
       THEN MatchResult(FALSE, EmptyMap, <<"cannot compile message regex", "error parsing regexp">>)
  ELSE MatchFound(cm, FindStringSubmatch(cm.message.v, c.message))

\* match compiling the message pattern before it compares reason and status.
MatchConditionCompilesFirst(cm, c) ==
  IF ~cm.message.nil /\ CompileFails(cm.message.v)
  THEN MatchResult(FALSE, EmptyMap, <<"cannot compile message regex", "error parsing regexp">>)
  ELSE IF ~cm.reason.nil /\ cm.reason.v # c.reason THEN MatchResult(FALSE, EmptyMap, NoErr)
  ELSE IF ~cm.status.nil /\ cm.status.v # c.status THEN MatchResult(FALSE, EmptyMap, NoErr)
  ELSE IF cm.message.nil THEN MatchResult(TRUE, EmptyMap, NoErr)
  ELSE MatchFound(cm, FindStringSubmatch(cm.message.v, c.message))

\* Lines 362-394 of match, c being the condition of the object.
MatchCondition(cm, c) ==
  IF ~cm.reason.nil /\ cm.reason.v # c.reason THEN MatchResult(FALSE, EmptyMap, NoErr)
  ELSE IF ~cm.status.nil /\ cm.status.v # c.status THEN MatchResult(FALSE, EmptyMap, NoErr)
  ELSE IF cm.message.nil THEN MatchResult(TRUE, EmptyMap, NoErr)
  ELSE IF CompileFails(cm.message.v)
       THEN MatchResult(FALSE, EmptyMap, <<"cannot compile message regex", "error parsing regexp">>)
  ELSE MatchFound(cm, FindStringSubmatch(cm.message.v, c.message))

\* match(ctx, cm, co): a nil group map is the empty map
match(cm, co) == MatchCondition(cm, GetCondition(co, cm.type))

----------------------------------------------------------------------------
(* The four quantifiers.  rm is the selection, order an enumeration of its *)
(* keys: the order in which this call's "range rm" visits them.  Each      *)
(* ...From is a loop from resource ri and predicate ci on, each ...Step    *)
(* the loop body once match has returned r.                                *)

RECURSIVE AnyAnyFrom(_, _, _, _, _)
RECURSIVE AnyAnyStep(_, _, _, _, _, _)
\* The loop body returning at the first pair that does not match.
AnyAnyStepStopsAtFirst(cms, rm, order, ri, ci, r) ==
  IF r.err # NoErr THEN MatchResult(FALSE, EmptyMap, r.err)
  ELSE IF r.m THEN MatchResult(TRUE, r.cg, NoErr)
  ELSE MatchResult(FALSE, EmptyMap, NoErr)

AnyAnyStep(cms, rm, order, ri, ci, r) ==
  IF r.err # NoErr THEN MatchResult(FALSE, EmptyMap, r.err)
  ELSE IF r.m THEN MatchResult(TRUE, r.cg, NoErr)
  ELSE AnyAnyFrom(cms, rm, order, ri, ci + 1)

AnyAnyFrom(cms, rm, order, ri, ci) ==
  IF ri > Len(order) THEN MatchResult(FALSE, EmptyMap, NoErr)
  ELSE IF ci > Len(cms) THEN AnyAnyFrom(cms, rm, order, ri + 1, 1)
  ELSE AnyAnyStep(cms, rm, order, ri, ci, match(cms[ci], rm[order[ri]]))

anyResourceMatchesAnyCondition(cms, rm, order) == AnyAnyFrom(cms, rm, order, 1, 1)

RECURSIVE AnyAllFrom(_, _, _, _, _, _)
RECURSIVE AnyAllStep(_, _, _, _, _, _, _)
\* The loop body going on with the next predicate after one that does not match.
AnyAllStepSkipsNonMatch(cms, rm, order, ri, ci, capturedGroups, r) ==
  IF r.err # NoErr THEN MatchResult(FALSE, EmptyMap, r.err)
  ELSE IF ~r.m THEN AnyAllFrom(cms, rm, order, ri, ci + 1, capturedGroups)
  ELSE AnyAllFrom(cms, rm, order, ri, ci + 1, MapsCopy(capturedGroups, r.cg))

AnyAllStep(cms, rm, order, ri, ci, capturedGroups, r) ==
  IF r.err # NoErr THEN MatchResult(FALSE, EmptyMap, r.err)
  ELSE IF ~r.m THEN AnyAllFrom(cms, rm, order, ri + 1, 1, capturedGroups)
  ELSE AnyAllFrom(cms, rm, order, ri, ci + 1, MapsCopy(capturedGroups, r.cg))

\* capturedGroups is declared outside the resource loop and is not reset
AnyAllFrom(cms, rm, order, ri, ci, capturedGroups) ==
  IF ri > Len(order) THEN MatchResult(FALSE, EmptyMap, NoErr)
  ELSE IF ci > Len(cms) THEN MatchResult(TRUE, capturedGroups, NoErr)
  ELSE AnyAllStep(cms, rm, order, ri, ci, capturedGroups, match(cms[ci], rm[order[ri]]))

anyResourceMatchesAllConditions(cms, rm, order) == AnyAllFrom(cms, rm, order, 1, 1, EmptyMap)

RECURSIVE AllAnyFrom(_, _, _, _, _, _, _)
RECURSIVE AllAnyStep(_, _, _, _, _, _, _, _)
\* The loop body returning at the first predicate that does not match.
AllAnyStepStopsAtNonMatch(cms, rm, order, ri, ci, matched, capturedGroups, r) ==
  IF r.err # NoErr THEN MatchResult(FALSE, EmptyMap, r.err)
  ELSE IF ~r.m THEN MatchResult(FALSE, EmptyMap, NoErr)
  ELSE AllAnyFrom(cms, rm, order, ri, ci + 1, matched + 1, MapsCopy(capturedGroups, r.cg))

\* The loop body leaving the resource at the first predicate that matches.
AllAnyStepFirstMatchOnly(cms, rm, order, ri, ci, matched, capturedGroups, r) ==
  IF r.err # NoErr THEN MatchResult(FALSE, EmptyMap, r.err)
  ELSE IF ~r.m THEN AllAnyFrom(cms, rm, order, ri, ci + 1, matched, capturedGroups)
  ELSE AllAnyFrom(cms, rm, order, ri + 1, 1, 0, MapsCopy(capturedGroups, r.cg))

AllAnyStep(cms, rm, order, ri, ci, matched, capturedGroups, r) ==
  IF r.err # NoErr THEN MatchResult(FALSE, EmptyMap, r.err)
  ELSE IF ~r.m THEN AllAnyFrom(cms, rm, order, ri, ci + 1, matched, capturedGroups)
  ELSE AllAnyFrom(cms, rm, order, ri, ci + 1, matched + 1, MapsCopy(capturedGroups, r.cg))

AllAnyFrom(cms, rm, order, ri, ci, matched, capturedGroups) ==
  IF ri > Len(order) THEN MatchResult(TRUE, capturedGroups, NoErr)
  ELSE IF ci > Len(cms)
       THEN (IF matched = 0 THEN MatchResult(FALSE, EmptyMap, NoErr)
             ELSE AllAnyFrom(cms, rm, order, ri + 1, 1, 0, capturedGroups))
  ELSE AllAnyStep(cms, rm, order, ri, ci, matched, capturedGroups,
                  match(cms[ci], rm[order[ri]]))

allResourcesMatchAnyConditions(cms, rm, order) == AllAnyFrom(cms, rm, order, 1, 1, 0, EmptyMap)

RECURSIVE AllAllFrom(_, _, _, _, _, _)
RECURSIVE AllAllStep(_, _, _, _, _, _, _)
\* The loop body going on with the next predicate after one that does not match.
AllAllStepSkipsNonMatch(cms, rm, order, ri, ci, capturedGroups, r) ==
  IF r.err # NoErr THEN MatchResult(FALSE, EmptyMap, r.err)
  ELSE IF ~r.m THEN AllAllFrom(cms, rm, order, ri, ci + 1, capturedGroups)
  ELSE AllAllFrom(cms, rm, order, ri, ci + 1, MapsCopy(capturedGroups, r.cg))

AllAllStep(cms, rm, order, ri, ci, capturedGroups, r) ==
  IF r.err # NoErr THEN MatchResult(FALSE, EmptyMap, r.err)
  ELSE IF ~r.m THEN MatchResult(FALSE, EmptyMap, NoErr)
  ELSE AllAllFrom(cms, rm, order, ri, ci + 1, MapsCopy(capturedGroups, r.cg))

AllAllFrom(cms, rm, order, ri, ci, capturedGroups) ==
  IF ri > Len(order) THEN MatchResult(TRUE, capturedGroups, NoErr)
  ELSE IF ci > Len(cms) THEN AllAllFrom(cms, rm, order, ri + 1, 1, capturedGroups)
  ELSE AllAllStep(cms, rm, order, ri, ci, capturedGroups, match(cms[ci], rm[order[ri]]))

allResourcesMatchAllConditions(cms, rm, order) == AllAllFrom(cms, rm, order, 1, 1, EmptyMap)

----------------------------------------------------------------------------
(* Resource selection and matchResources *)

\* strings.Join(keyParts, "."): the key of an extra resource
ExtraKey(o) == <<"extra-resource", o.into, o.group, o.kind, o.namespace, o.name>>

\* Lines 200-209: the observed keys the pattern re selects, in the order ordObs
\* in which the map is ranged.
Selected(re, ordObs) == SelectSeq(ordObs, LAMBDA k : MatchString(re, k))

\* Lines 214-229: the extra resources the pattern re selects, by key; a later
\* extra resource with the same key replaces an earlier one.
SelectedExtra(re, extra) ==
  [k \in {ExtraKey(extra[j]) : j \in {n \in 1..Len(extra) : MatchString(re, ExtraKey(extra[n]))}} |->
     [conditions |->
        extra[CHOOSE j \in 1..Len(extra) :
                /\ ExtraKey(extra[j]) = k
                /\ \A j2 \in (j+1)..Len(extra) : ExtraKey(extra[j2]) # k].conditions]]

\* Lines 202-207: the selected observed resources as objects.
AsObjects(sel, observedMap) ==
  [k \in {sel[n] : n \in 1..Len(sel)} |-> [conditions |-> observedMap[k].conditions]]

\* The selected keys whose resource sdkresource.AsObject cannot convert.
Inconvertible(sel, observedMap) == SelectSeq(sel, LAMBDA k : ~observedMap[k].convertible)

RECURSIVE SelectFrom(_, _, _, _, _, _)
RECURSIVE SelectStep(_, _, _, _, _, _, _)
\* Lines 200-229 for mc.Resources[i], sel being the observed keys it selects.
SelectStep(mc, observedMap, extraResources, ordObs, i, rs, sel) ==
  IF Inconvertible(sel, observedMap) # <<>>
  THEN [rs |-> rs,
        err |-> <<"cannot convert resource to object, resourcesIndex:", ToString(i - 1),
                  "observedMapKey:">> \o Inconvertible(sel, observedMap)[1]]
  ELSE SelectFrom(mc, observedMap, extraResources, ordObs, i + 1,
         MapsCopy(MapsCopy(rs, AsObjects(sel, observedMap)),
                  IF Deref(mc.includeExtraResources, FALSE)
                  THEN SelectedExtra(mc.resources[i].name, extraResources.v)
                  ELSE EmptyMap))

\* The loop over mc.Resources from index i on, rs being the selection so far.
SelectFrom(mc, observedMap, extraResources, ordObs, i, rs) ==
  IF i > Len(mc.resources) THEN [rs |-> rs, err |-> NoErr]
  ELSE IF CompileFails(mc.resources[i].name)
       THEN [rs |-> rs,
             err |-> <<"cannot compile resource key regex, resourcesIndex:", ToString(i - 1),
                       "error parsing regexp">>]
  ELSE SelectStep(mc, observedMap, extraResources, ordObs, i, rs,
                  Selected(mc.resources[i].name, ordObs))

\* The composite joining the selection only when something else is selected.
WithCompositeWhenSelected(mc, xr, s) ==
  IF s.err = NoErr /\ Deref(mc.includeCompositeAsResource, FALSE) /\ DOMAIN s.rs # {}
  THEN [rs |-> MapsCopy(s.rs, (compositeResourceKey :> [conditions |-> xr.conditions])),
        err |-> NoErr]
  ELSE s

\* Lines 232-235: the composite resource joins the selection s.
WithComposite(mc, xr, s) ==
  IF s.err = NoErr /\ Deref(mc.includeCompositeAsResource, FALSE)
  THEN [rs |-> MapsCopy(s.rs, (compositeResourceKey :> [conditions |-> xr.conditions])),
        err |-> NoErr]
  ELSE s

\* Lines 193-235 of matchResources: the selection rs, or the error.
Selection(mc, observedMap, xr, extraResources, ordObs) ==
  WithComposite(mc, xr, SelectFrom(mc, observedMap, extraResources, ordObs, 1, EmptyMap))

\* Lines 246-257 alone: the quantifier applied whatever the selection and
\* the conditions hold.
MatchSelectedUnguarded(mc, s, ordRs) ==
  IF s.err # NoErr THEN MatchResult(FALSE, EmptyMap, s.err)
  ELSE IF Deref(mc.type, AllResourcesMatchAllConditions) = AnyResourceMatchesAnyCondition
       THEN anyResourceMatchesAnyCondition(mc.conditions, s.rs, ordRs)
  ELSE IF Deref(mc.type, AllResourcesMatchAllConditions) = AnyResourceMatchesAllConditions
       THEN anyResourceMatchesAllConditions(mc.conditions, s.rs, ordRs)
  ELSE IF Deref(mc.type, AllResourcesMatchAllConditions) = AllResourcesMatchAnyCondition
       THEN allResourcesMatchAnyConditions(mc.conditions, s.rs, ordRs)
  ELSE allResourcesMatchAllConditions(mc.conditions, s.rs, ordRs)

\* Lines 237-257 of matchResources, s being the selection.
MatchSelected(mc, s, ordRs) ==
  IF s.err # NoErr THEN MatchResult(FALSE, EmptyMap, s.err)
  ELSE IF DOMAIN s.rs = {} THEN MatchResult(FALSE, EmptyMap, NoErr)
  ELSE IF Len(mc.conditions) = 0 THEN MatchResult(FALSE, EmptyMap, NoErr)
  ELSE IF Deref(mc.type, AllResourcesMatchAllConditions) = AnyResourceMatchesAnyCondition
       THEN anyResourceMatchesAnyCondition(mc.conditions, s.rs, ordRs)
  ELSE IF Deref(mc.type, AllResourcesMatchAllConditions) = AnyResourceMatchesAllConditions
       THEN anyResourceMatchesAllConditions(mc.conditions, s.rs, ordRs)
  ELSE IF Deref(mc.type, AllResourcesMatchAllConditions) = AllResourcesMatchAnyCondition
       THEN allResourcesMatchAnyConditions(mc.conditions, s.rs, ordRs)
  ELSE allResourcesMatchAllConditions(mc.conditions, s.rs, ordRs)

\* matchResources(ctx, mc, observedMap, xr, extraResources); ordObs and ordRs are
\* the orders in which observedMap and the selection are ranged in this call.
matchResources(mc, observedMap, xr, extraResources, ordObs, ordRs) ==
  MatchSelected(mc, Selection(mc, observedMap, xr, extraResources, ordObs), ordRs)

RECURSIVE ExtraFrom(_, _, _, _, _)
\* The loops of getExtraResources over exReMap (keys in order ord) and its lists.
ExtraFrom(exReMap, ord, ki, vi, acc) ==
  IF ki > Len(ord) THEN [res |-> PtrTo(acc), err |-> NoErr]
  ELSE LET k == ord[ki]
           v == exReMap[k] IN
       IF ~v.isList
       THEN [res |-> Nil(<<>>), err |-> <<"unexpected extra-resources value type for", k>>]
       ELSE IF vi > Len(v.items) THEN ExtraFrom(exReMap, ord, ki + 1, 1, acc)
       ELSE IF ~v.items[vi].isMap
            THEN [res |-> Nil(<<>>),
                  err |-> <<"unexpected extra-resources value type for", k, ToString(vi - 1)>>]
       ELSE ExtraFrom(exReMap, ord, ki, vi + 1,
                      Append(acc, [into |-> k] @@ v.items[vi].data))

\* getExtraResources returning a nil slice when the context has no entry.
getExtraResourcesNilWhenAbsent(context, ord) ==
  IF ~context.has THEN [res |-> Nil(<<>>), err |-> NoErr]
  ELSE IF ~context.isMap
       THEN [res |-> Nil(<<>>), err |-> <<"unexpected extra-resources type">>]
  ELSE ExtraFrom(context.exReMap, ord, 1, 1, <<>>)

\* getExtraResources(req); ord is the order in which exReMap is ranged.
\* A nil slice is [nil |-> TRUE], an empty one [nil |-> FALSE, v |-> <<>>].
getExtraResources(context, ord) ==
  IF ~context.has THEN [res |-> PtrTo(<<>>), err |-> NoErr]
  ELSE IF ~context.isMap
       THEN [res |-> Nil(<<>>), err |-> <<"unexpected extra-resources type">>]
  ELSE ExtraFrom(context.exReMap, ord, 1, 1, <<>>)

----------------------------------------------------------------------------
(* The requests RunFunction is run on *)

Went == "Something went wrong: "
SyncedError(detail) ==
  [status |-> "False", reason |-> "ReconcileError", message |-> <<Went, detail>>]

KeyA == <<"resource-", "a">>
KeyB == <<"resource-", "b">>

\* req.GetObserved().GetResources()
ObservedBoth ==
  (KeyA :> [convertible |-> TRUE,
            conditions |-> ("Synced" :> SyncedError("some lower level error"))])
  @@ (KeyB :> [convertible |-> TRUE,
               conditions |-> ("Synced" :> SyncedError("another error"))])
ObservedMaps == {ObservedBoth, EmptyMap}

\* the observed composite resource
XR == [conditions |-> EmptyMap]

\* req.GetContext()["apiextensions.crossplane.io/extra-resources"]
ContextAbsent == [has |-> FALSE, isMap |-> FALSE, exReMap |-> EmptyMap]
ContextNotMap == [has |-> TRUE, isMap |-> FALSE, exReMap |-> EmptyMap]
ContextDeployment ==
  [has |-> TRUE, isMap |-> TRUE,
   exReMap |-> ("Deployment" :>
      [isList |-> TRUE,
       items |-> <<[isMap |-> TRUE,
                    data |-> [group |-> "apps", kind |-> "Deployment",
                              namespace |-> "default", name |-> "nginx",
                              conditions |-> ("Synced" :> SyncedError("extra error"))]]>>])]
Contexts == {ContextAbsent, ContextNotMap, ContextDeployment}

CM(type, status, reason, message) ==
  [type |-> type, status |-> status, reason |-> reason, message |-> message]
Matcher(type, names, conditions, composite, extra) ==
  [type |-> type, resources |-> [i \in 1..Len(names) |-> [name |-> names[i]]],
   conditions |-> conditions,
   includeCompositeAsResource |-> composite, includeExtraResources |-> extra]

CaptureError ==
  CM("Synced", PtrTo("False"), PtrTo("ReconcileError"), PtrTo(<<Went, "(?P<Error>.+)">>))
MCapA == Matcher(Nil(""), <<KeyA>>, <<CaptureError>>, Nil(FALSE), Nil(FALSE))
MCapB == Matcher(Nil(""), <<KeyB>>, <<CaptureError>>, Nil(FALSE), Nil(FALSE))
MPlain ==
  Matcher(Nil(""), <<KeyA>>, <<CM("Synced", PtrTo("False"), Nil(""), Nil(<<>>))>>,
          Nil(FALSE), Nil(FALSE))
MNo ==
  Matcher(Nil(""), <<KeyA>>, <<CM("Synced", PtrTo("True"), Nil(""), Nil(<<>>))>>,
          Nil(FALSE), Nil(FALSE))
MBadMessage ==
  Matcher(Nil(""), <<KeyA>>,
          <<CM("Synced", PtrTo("False"), PtrTo("ReconcileError"), PtrTo(<<"a bad regex ", "(?!)">>))>>,
          Nil(FALSE), Nil(FALSE))
MBadName == Matcher(Nil(""), <<<<"(?!)">>>>, <<CaptureError>>, Nil(FALSE), Nil(FALSE))
MExtra ==
  Matcher(PtrTo(AnyResourceMatchesAnyCondition), <<<<"extra-resource">>>>, <<CaptureError>>,
          Nil(FALSE), PtrTo(TRUE))

SetCond(target, force, type, status, reason, message) ==
  [target |-> target, force |-> force,
   condition |-> [type |-> type, status |-> status, reason |-> reason, message |-> message]]
SReady == SetCond(Nil(""), Nil(FALSE), "CustomReady", "False", "InternalError",
                  PtrTo(<<"error: ", "{{ .Error }}">>))
SReadyAgain == SetCond(PtrTo(TargetCompositeAndClaim), PtrTo(FALSE), "CustomReady", "True",
                       "Other", Nil(<<>>))
SReadyForce == SetCond(PtrTo(TargetComposite), PtrTo(TRUE), "CustomReady", "Unknown",
                       "Forced", PtrTo(<<"forced">>))
SBadTemplate == SetCond(Nil(""), Nil(FALSE), "Second", "False", "InternalError",
                        PtrTo(<<"this condition will fail ", "{{ .Error }">>))
SSecond == SetCond(Nil(""), Nil(FALSE), "Second", "True", "Fine", PtrTo(<<"{{ .Error }}">>))

Event(target, type, reason, message) ==
  [target |-> target, event |-> [type |-> type, reason |-> reason, message |-> message]]
EvDefault == Event(Nil(""), Nil(""), PtrTo("Happened"), <<"event: ", "{{ .Error }}">>)
EvWarning == Event(PtrTo(TargetCompositeAndClaim), PtrTo(EventTypeWarning), Nil(""), <<"warned">>)
EvBogus == Event(Nil(""), PtrTo("Bogus"), Nil(""), <<"bogus">>)
EvBadTemplate == Event(Nil(""), PtrTo(EventTypeNormal), Nil(""), <<"{{ .Error }">>)

Hook(matchers, setConditions, createEvents) ==
  [matchers |-> matchers, setConditions |-> setConditions, createEvents |-> createEvents]

SetterLists == {<<SReady, SReadyAgain>>, <<SReadyForce, SReadyAgain>>, <<SBadTemplate, SSecond>>}
EventLists == {<<>>, <<EvDefault, EvDefault>>, <<EvBogus, EvBadTemplate, EvWarning>>}

\* Hooks whose two matchers both capture Error (from different resources),
\* with every list of setters and events; a hook that matches without
\* capturing; and hooks with no matcher, an unmatched second matcher, and a
\* failing first or second matcher.
HookSet ==
  {Hook(<<MCapA, MCapB>>, ss, es) : ss \in SetterLists, es \in EventLists}
  \cup {Hook(<<MPlain>>, <<SBadTemplate, SSecond>>, <<EvBogus, EvBadTemplate, EvWarning>>)}
  \cup {Hook(ms, <<SReady, SReadyAgain>>, <<EvDefault, EvDefault>>) :
          ms \in {<<>>, <<MCapA, MNo>>, <<MBadMessage, MCapA>>, <<MCapA, MBadName>>}}

\* Hooks with a matcher that asks for the extra resources.
ExtraHookSet ==
  {Hook(<<MExtra>>, <<SReady, SReadyAgain>>, <<EvDefault, EvDefault>>),
   Hook(<<MBadMessage, MExtra>>, <<SReady, SReadyAgain>>, <<>>),
   Hook(<<MCapA, MExtra>>, <<SReadyForce, SReadyAgain>>, <<>>),
   Hook(<<MPlain>>, <<SSecond>>, <<EvWarning>>)}

Request(inputOK, xrOK, hooks, observed, context) ==
  [inputOK |-> inputOK, xrOK |-> xrOK, hooks |-> hooks, observed |-> observed,
   context |-> context]

Requests ==
  {Request(TRUE, TRUE, hs, obs, ContextAbsent) :
     hs \in SeqsUpTo(HookSet, MaxHooks), obs \in ObservedMaps}
  \cup {Request(TRUE, TRUE, hs, ObservedBoth, c) :
          hs \in SeqsUpTo(ExtraHookSet, MaxHooks), c \in Contexts}
  \cup {Request(FALSE, TRUE, <<>>, EmptyMap, ContextAbsent),
        Request(TRUE, FALSE, <<>>, EmptyMap, ContextAbsent)}

----------------------------------------------------------------------------
(* The requests on which the matching of one matcher is examined: one hook *)
(* with one matcher, over every quantifier, several resource selections    *)
(* and lists of condition predicates.                                      *)

\* Largest number of condition predicates in the matchers of MatcherSet.
MaxPredicates == 2

\* ConditionMatcher: every combination of set and unset fields.
PredicateTypes == {"Synced", "Ready"}
PredicateStatuses == {Nil(""), PtrTo("False"), PtrTo("True"), PtrTo("Unknown")}
PredicateReasons == {Nil(""), PtrTo("ReconcileError"), PtrTo("")}
PredicateMessages ==
  {Nil(<<>>), PtrTo(<<>>), PtrTo(<<Went, "(?P<Error>.+)">>), PtrTo(<<Went, "another error">>),
   PtrTo(<<"a bad regex ", "(?!)">>), PtrTo(<<Went, "(.+)">>)}
Predicates ==
  {CM(t, st, r, m) : t \in PredicateTypes, st \in PredicateStatuses,
                     r \in PredicateReasons, m \in PredicateMessages}

\* The predicates the quantifiers are examined on: capturing Error or Other
\* from every resource, matching only resource-a or only resource-b,
\* matching nothing, matching everything, one that does not compile, one
\* capturing the whole message as Error, and one with an unnamed group.
QuantPredicates ==
  {CaptureError,
   CM("Synced", Nil(""), Nil(""), PtrTo(<<Went, "(?P<Other>.+)">>)),
   CM("Synced", Nil(""), Nil(""), PtrTo(<<Went, "some lower level error">>)),
   CM("Synced", Nil(""), Nil(""), PtrTo(<<Went, "another error">>)),
   CM("Synced", PtrTo("True"), Nil(""), Nil(<<>>)),
   CM("Synced", Nil(""), Nil(""), Nil(<<>>)),
   CM("Synced", PtrTo("False"), Nil(""), PtrTo(<<"a bad regex ", "(?!)">>)),
   CM("Synced", Nil(""), Nil(""), PtrTo(<<"(?P<Error>.+)">>)),
   CM("Synced", Nil(""), Nil(""), PtrTo(<<Went, "(.+)">>))}

\* Matcher.Type: unset, or one of the four
MatchTypes ==
  {Nil(""), PtrTo(AnyResourceMatchesAnyCondition), PtrTo(AnyResourceMatchesAllConditions),
   PtrTo(AllResourcesMatchAnyCondition), PtrTo(AllResourcesMatchAllConditions)}

\* Matcher.Resources: resource-a, every resource, no resource, and none given
ResourceNameLists == {<<KeyA>>, <<<<"resource-">>>>, <<<<"nothing">>>>, <<>>}

MatcherSet ==
  {Matcher(t, <<KeyA>>, <<p>>, c, Nil(FALSE)) :
     t \in {Nil(""), PtrTo(AnyResourceMatchesAnyCondition)}, p \in Predicates,
     c \in {Nil(FALSE), PtrTo(TRUE)}}
  \cup {Matcher(t, ns, cs, c, Nil(FALSE)) :
          t \in MatchTypes, ns \in ResourceNameLists,
          cs \in SeqsUpTo(QuantPredicates, MaxPredicates), c \in {Nil(FALSE), PtrTo(TRUE)}}

MatchRequests ==
  {Request(TRUE, TRUE, <<Hook(<<m>>, <<SReady>>, <<EvDefault>>)>>, obs, ContextAbsent) :
     m \in MatcherSet, obs \in ObservedMaps}

----------------------------------------------------------------------------
(* RunFunction *)

VARIABLES
  req,            \* the RunFunctionRequest
  pc,             \* the position of RunFunction
  rsp,            \* the RunFunctionResponse: conditions and results
  log,            \* the messages logged at Info level
  errored,        \* errored
  conditionsSet,  \* conditionsSet: the types mapped to true
  extraResources, \* extraResources
  shi, mci, sci, cei,  \* the loop indexes, from 1
  scGroups,       \* scGroups of the hook in progress
  allMatched,     \* allMatched of the hook in progress
  matchResults,   \* matched, mcGroups, err of each matcher evaluated in the hook in progress
  returned        \* the error RunFunction returned with rsp, once it has returned

vars == <<req, pc, rsp, log, errored, conditionsSet, extraResources,
          shi, mci, sci, cei, scGroups, allMatched, matchResults, returned>>

Init ==
  /\ req \in Requests
  /\ pc = "start"
  /\ rsp = [conditions |-> <<>>, results |-> <<>>]
  /\ log = <<>>
  /\ errored = FALSE
  /\ conditionsSet = {}
  /\ extraResources = Nil(<<>>)
  /\ shi = 0 /\ mci = 0 /\ sci = 0 /\ cei = 0
  /\ scGroups = EmptyMap
  /\ allMatched = FALSE
  /\ matchResults = <<>>
  /\ returned = Nil(NoErr)

\* in.StatusConditionHooks and the hook the loop is at
Hooks == req.hooks
sh == Hooks[shi]

\* The condition put in front of the list.
AddConditionFront(c) == [rsp EXCEPT !.conditions = <<c>> \o @]

\* The condition taking the place of the conditions of its type, if any.
AddConditionUpsert(c) ==
  IF \E i \in 1..Len(rsp.conditions) : rsp.conditions[i].type = c.type
  THEN [rsp EXCEPT !.conditions =
          [i \in 1..Len(rsp.conditions) |->
             IF rsp.conditions[i].type = c.type THEN c ELSE rsp.conditions[i]]]
  ELSE [rsp EXCEPT !.conditions = Append(@, c)]

\* response.ConditionTrue/ConditionFalse: the condition is appended to rsp.Conditions.
AddCondition(c) == [rsp EXCEPT !.conditions = Append(@, c)]

\* Line 101 with allMatched starting out true.
InitialAllMatchedTrue == TRUE

\* Line 101: allMatched := false
InitialAllMatched == FALSE

\* Line 146 with the force test dropped.
AlreadySetIgnoringForce(cs, set) == cs.condition.type \in set

\* Line 146: the condition is already set and this setter is not forceful.
AlreadySet(cs, set) == cs.condition.type \in set /\ (cs.force.nil \/ ~cs.force.v)

\* Line 163 left out.
MarkedNothing(set, cs) == set

\* Line 163: conditionsSet[cs.Condition.Type] = true
Marked(set, cs) == set \cup {cs.condition.type}

\* Lines 121-122 with the reason of an input failure.
MatchFailureAsInput(err, h, m) ==
  ConditionFalse(typeFunctionSuccess, reasonInputFailure,
                 Wrap(err, <<"cannot match resources, statusConditionHookIndex:",
                             ToString(h - 1), "matchConditionIndex:", ToString(m - 1)>>))

\* Lines 121-122: the condition of a matcher failure at hook h, matcher m (from 1).
MatchFailure(err, h, m) ==
  ConditionFalse(typeFunctionSuccess, reasonMatchFailure,
                 Wrap(err, <<"cannot match resources, statusConditionHookIndex:",
                             ToString(h - 1), "matchConditionIndex:", ToString(m - 1)>>))

\* Lines 156-157: the condition of a setter failure at hook h, setter i (from 1).
SetConditionFailure(err, h, i) ==
  ConditionFalse(typeFunctionSuccess, reasonSetConditionFailure,
                 Wrap(err, <<"cannot set condition, statusConditionHookIndex:",
                             ToString(h - 1), "setConditionIndex:", ToString(i - 1)>>))

\* Lines 171-172: the condition of an event failure at hook h, event i (from 1).
CreateEventFailure(err, h, i) ==
  ConditionFalse(typeFunctionSuccess, reasonSetConditionFailure,
                 Wrap(err, <<"cannot create event, statusConditionHookIndex:",
                             ToString(h - 1), "createEventIndex:", ToString(i - 1)>>))

\* A return of rsp with an error.
ReturnsError == PtrTo(<<"error">>)

\* Lines 72, 81, 114 and 185: return rsp, nil
Returns == PtrTo(NoErr)

\* Line 181 with the test dropped.
SucceededAlways(e) == TRUE

\* Line 181: if !errored
Succeeded(e) == ~e

\* Lines 66-95: get the input and the observed XR.
Start ==
  /\ pc = "start"
  /\ IF ~req.inputOK
     THEN /\ rsp' = AddCondition(ConditionFalse(typeFunctionSuccess, reasonInputFailure,
                       <<"cannot get Function input from *v1.RunFunctionRequest", "input error">>))
          /\ log' = Append(log, "cannot get Function input from *v1.RunFunctionRequest")
          /\ pc' = "done"
          /\ returned' = Returns
          /\ UNCHANGED shi
     ELSE IF ~req.xrOK
     THEN /\ rsp' = AddCondition(ConditionFalse(typeFunctionSuccess, reasonInputFailure,
                       <<"cannot get observed XR from *v1.RunFunctionRequest", "xr error">>))
          /\ log' = Append(log, "cannot get observed XR from *v1.RunFunctionRequest")
          /\ pc' = "done"
          /\ returned' = Returns
          /\ UNCHANGED shi
     ELSE /\ pc' = "hooks"
          /\ shi' = 1
          /\ UNCHANGED <<rsp, log, returned>>
  /\ errored' = FALSE
  /\ conditionsSet' = {}
  /\ extraResources' = Nil(<<>>)
  /\ UNCHANGED <<req, mci, sci, cei, scGroups, allMatched, matchResults>>

\* Lines 97-102: the next hook: fresh scGroups and allMatched.
BeginHook ==
  /\ pc = "hooks"
  /\ shi <= Len(Hooks)
  /\ scGroups' = EmptyMap
  /\ allMatched' = InitialAllMatched
  /\ matchResults' = <<>>
  /\ mci' = 1 /\ sci' = 0 /\ cei' = 0
  /\ pc' = IF Len(sh.matchers) >= 1 THEN "matchers" ELSE "afterMatchers"
  /\ UNCHANGED <<req, rsp, log, errored, conditionsSet, extraResources, shi, returned>>

\* The Info message logged inside matchResources for the error it returns.
InnerLog(err) ==
  IF err[1] = "cannot compile message regex" THEN "cannot match resource"
  ELSE IF err[1] = "cannot compile resource key regex, resourcesIndex:"
       THEN "cannot compile resource key regex"
  ELSE "cannot convert resource to object"

\* The orders in which getExtraResources may range exReMap.
ContextOrders == IF req.context.has /\ req.context.isMap
                 THEN Perms(DOMAIN req.context.exReMap) ELSE {<<>>}

\* Lines 119-135: r is what matchResources returned for matcher mci, er the
\* extra resources at hand: record a failure, leave the loop or go on.
MatchStep(er, r) ==
  /\ extraResources' = er
  /\ matchResults' = Append(matchResults,
                            [matched |-> r.m /\ r.err = NoErr, mcGroups |-> r.cg, err |-> r.err])
  /\ IF r.err # NoErr
     THEN /\ rsp' = AddCondition(MatchFailure(r.err, shi, mci))
          /\ log' = log \o <<InnerLog(r.err), "cannot match resources">>
          /\ errored' = TRUE
     ELSE UNCHANGED <<rsp, log, errored>>
  /\ IF ~(r.m /\ r.err = NoErr)
     THEN /\ allMatched' = FALSE
          /\ pc' = "afterMatchers"
          /\ UNCHANGED <<mci, scGroups>>
     ELSE /\ allMatched' = TRUE
          /\ scGroups' = MapsCopy(scGroups, r.cg)
          /\ mci' = mci + 1
          /\ pc' = IF mci + 1 <= Len(sh.matchers) THEN "matchers" ELSE "afterMatchers"
  /\ UNCHANGED <<req, conditionsSet, shi, sci, cei, returned>>

\* Lines 109-135: got is what loading the extra resources returned (the ones
\* at hand when there was nothing to load).
Loaded(got, ordObs) ==
  IF got.err # NoErr
  THEN /\ rsp' = AddCondition(ConditionFalse(typeFunctionSuccess, reasonInputFailure,
                    Wrap(got.err, <<"cannot load extra-resources">>)))
       /\ log' = Append(log, "cannot load extra-resources")
       /\ extraResources' = got.res
       /\ pc' = "done"
       /\ returned' = Returns
       /\ UNCHANGED <<req, errored, conditionsSet, shi, mci, sci, cei,
                      scGroups, allMatched, matchResults>>
  ELSE \E ordRs \in Perms(DOMAIN Selection(sh.matchers[mci], req.observed, XR, got.res, ordObs).rs) :
         MatchStep(got.res,
                   matchResources(sh.matchers[mci], req.observed, XR, got.res, ordObs, ordRs))

\* Lines 102-136: one iteration of the loop over sh.Matchers.
EvalMatcher ==
  /\ pc = "matchers"
  /\ \E ordX \in ContextOrders, ordObs \in Perms(DOMAIN req.observed) :
       Loaded(IF Deref(sh.matchers[mci].includeExtraResources, FALSE) /\ extraResources.nil
              THEN getExtraResources(req.context, ordX)
              ELSE [res |-> extraResources, err |-> NoErr],
              ordObs)

\* Lines 138-143: a hook that did not match is left, a hook that matched
\* goes on to its setConditions.
AfterMatchers ==
  /\ pc = "afterMatchers"
  /\ IF ~allMatched
     THEN /\ shi' = shi + 1
          /\ pc' = "hooks"
          /\ UNCHANGED sci
     ELSE /\ sci' = 1
          /\ pc' = "setConditions"
          /\ UNCHANGED shi
  /\ UNCHANGED <<req, rsp, log, errored, conditionsSet, extraResources, mci, cei,
                 scGroups, allMatched, matchResults, returned>>

\* Lines 144-164: one iteration of the loop over sh.SetConditions (the loop
\* is entered at its test, so sci may be past the end).
SetCondition ==
  /\ pc = "setConditions"
  /\ IF sci > Len(sh.setConditions)
     THEN /\ cei' = 1
          /\ pc' = "createEvents"
          /\ UNCHANGED <<rsp, log, errored, conditionsSet, sci>>
     ELSE LET cs == sh.setConditions[sci]
              t == transformCondition(cs, scGroups)
          IN /\ sci' = sci + 1
             /\ UNCHANGED <<pc, cei>>
             /\ IF AlreadySet(cs, conditionsSet)
                THEN UNCHANGED <<rsp, log, errored, conditionsSet>>
                ELSE IF t.err # NoErr
                THEN /\ rsp' = AddCondition(SetConditionFailure(t.err, shi, sci))
                     /\ log' = Append(log, "cannot set condition")
                     /\ errored' = TRUE
                     /\ UNCHANGED conditionsSet
                ELSE /\ rsp' = AddCondition(t.c)
                     /\ conditionsSet' = Marked(conditionsSet, cs)
                     /\ UNCHANGED <<log, errored>>
  /\ UNCHANGED <<req, extraResources, shi, mci, scGroups, allMatched, matchResults,
                 returned>>

\* Lines 166-179: one iteration of the loop over sh.CreateEvents (entered at
\* its test); past the end the hook loop moves to the next hook.
CreateEvent ==
  /\ pc = "createEvents"
  /\ IF cei > Len(sh.createEvents)
     THEN /\ shi' = shi + 1
          /\ pc' = "hooks"
          /\ UNCHANGED <<rsp, log, errored, cei>>
     ELSE LET ce == sh.createEvents[cei]
              t == transformEvent(ce, scGroups)
          IN /\ cei' = cei + 1
             /\ UNCHANGED <<pc, shi>>
             /\ IF t.err # NoErr
                THEN /\ rsp' = AddCondition(CreateEventFailure(t.err, shi, cei))
                     /\ log' = Append(log, "cannot create event")
                     /\ errored' = TRUE
                ELSE /\ rsp' = [rsp EXCEPT !.results = Append(@, t.r)]
                     /\ UNCHANGED <<log, errored>>
  /\ UNCHANGED <<req, conditionsSet, extraResources, mci, sci, scGroups, allMatched,
                 matchResults, returned>>

\* Lines 181-185: after the last hook, report success unless errored.
Finish ==
  /\ pc = "hooks"
  /\ shi > Len(Hooks)
  /\ rsp' = IF Succeeded(errored) THEN AddCondition(ConditionTrue(typeFunctionSuccess, reasonAvailable))
            ELSE rsp
  /\ pc' = "done"
  /\ returned' = Returns
  /\ UNCHANGED <<req, log, errored, conditionsSet, extraResources, shi, mci, sci, cei,
                 scGroups, allMatched, matchResults>>

Next ==
  \/ Start
  \/ BeginHook
  \/ EvalMatcher
  \/ AfterMatchers
  \/ SetCondition
  \/ CreateEvent
  \/ Finish

Spec == Init /\ [][Next]_vars

\* RunFunction on the requests of MatchRequests.
MatchInit ==
  /\ req \in MatchRequests
  /\ pc = "start"
  /\ rsp = [conditions |-> <<>>, results |-> <<>>]
  /\ log = <<>>
  /\ errored = FALSE
  /\ conditionsSet = {}
  /\ extraResources = Nil(<<>>)
  /\ shi = 0 /\ mci = 0 /\ sci = 0 /\ cei = 0
  /\ scGroups = EmptyMap
  /\ allMatched = FALSE
  /\ matchResults = <<>>
  /\ returned = Nil(NoErr)

MatchSpec == MatchInit /\ [][Next]_vars

\* RunFunction is one sequential call: it keeps taking steps until it
\* returns.  This is weak fairness of Next, in two parts: that of the steps
\* other than EvalMatcher, and that of EvalMatcher, which is enabled exactly
\* when pc = "matchers" and is the only step taken from there.
FairSpec ==
  /\ Spec
  /\ WF_vars(pc # "matchers" /\ Next)
  /\ ([]<>(pc # "matchers") \/ []<><<pc = "matchers">>_vars)

----------------------------------------------------------------------------
(* Properties of RunFunction *)

\* The loop over sh.SetConditions is at setter sci.
AtSetter == pc = "setConditions" /\ sci <= Len(sh.setConditions)
\* The loop over sh.CreateEvents is at event cei.
AtEvent == pc = "createEvents" /\ cei <= Len(sh.createEvents)
NonForceful(cs) == cs.force.nil \/ ~cs.force.v
IsHealth(c) == c.type = typeFunctionSuccess
\* The positions of rsp.Conditions holding a condition of type t.
PositionsOf(t) == {i \in 1..Len(rsp.conditions) : rsp.conditions[i].type = t}
\* The types of the conditions emitted by setters so far.
EmittedTypes(conditions) ==
  {conditions[i].type : i \in 1..Len(conditions)} \ {typeFunctionSuccess}
\* This step appends exactly one condition to rsp.Conditions.
AppendsCondition ==
  /\ Len(rsp'.conditions) = Len(rsp.conditions) + 1
  /\ SubSeq(rsp'.conditions, 1, Len(rsp.conditions)) = rsp.conditions
LastCondition(r) == r.conditions[Len(r.conditions)]

\* C1: a setCondition with force unset or false whose condition type was
\* already emitted earlier in the run (by any hook) emits no condition and
\* records no failure.
C1_NonForcefulSetterSkipped ==
  [][(/\ AtSetter
      /\ NonForceful(sh.setConditions[sci])
      /\ sh.setConditions[sci].condition.type \in EmittedTypes(rsp.conditions))
     => (rsp' = rsp /\ log' = log /\ errored' = errored)]_vars

\* The first setter of the second hook is not forceful, has been processed,
\* and the only condition of its type is the one another setter emitted in
\* the first hook.
C1_Witness ==
  /\ pc = "setConditions" /\ shi = 2 /\ sci = 2
  /\ NonForceful(sh.setConditions[1])
  /\ \E i \in 1..Len(rsp.conditions) :
       /\ PositionsOf(sh.setConditions[1].condition.type) = {i}
       /\ rsp.conditions[i].reason = Hooks[1].setConditions[1].condition.reason
       /\ rsp.conditions[i].reason # sh.setConditions[1].condition.reason
  /\ log = <<>>

\* C2: a setCondition with force=true that renders is appended to the
\* emitted conditions even when its type is already set, and every emitted
\* type stays marked as set (so later non-forceful setters are skipped).
C2_ForcefulSetterApplies ==
  [][/\ (/\ AtSetter
         /\ ~NonForceful(sh.setConditions[sci])
         /\ templateMessage(sh.setConditions[sci].condition.message, scGroups).err = NoErr)
        => (/\ AppendsCondition
            /\ LastCondition(rsp').type = sh.setConditions[sci].condition.type
            /\ LastCondition(rsp').reason = sh.setConditions[sci].condition.reason
            /\ sh.setConditions[sci].condition.type \in conditionsSet')
     /\ conditionsSet \subseteq conditionsSet'
     /\ EmittedTypes(rsp'.conditions) \subseteq conditionsSet']_vars

\* In the second hook a forceful setter was applied on a type the first hook
\* had set, and the non-forceful setter of that type after it was skipped.
C2_Witness ==
  /\ pc = "setConditions" /\ shi = 2 /\ sci = 3
  /\ ~NonForceful(sh.setConditions[1])
  /\ NonForceful(sh.setConditions[2])
  /\ sh.setConditions[2].condition.type = sh.setConditions[1].condition.type
  /\ Cardinality(PositionsOf(sh.setConditions[1].condition.type)) = 2
  /\ LastCondition(rsp).reason = sh.setConditions[1].condition.reason
  /\ NonForceful(Hooks[1].setConditions[1])

\* Every matcher of the hook in progress has been evaluated and has matched.
EveryMatcherSucceeded ==
  \A i \in 1..Len(sh.matchers) : i <= Len(matchResults) /\ matchResults[i].matched
\* The setConditions and createEvents of a hook are only reached through
\* the end of its matcher loop.
OnlyFiredHooksProcessed ==
  /\ pc' = "setConditions" => pc \in {"afterMatchers", "setConditions"}
  /\ pc' = "createEvents" => pc \in {"setConditions", "createEvents"}

RECURSIVE PlaceholdersRenderedAs(_, _, _, _)
\* out is template t with every placeholder of group G replaced by v (a
\* placeholder of another group may stand for any text).
PlaceholdersRenderedAs(t, out, G, v) ==
  IF t = <<>> THEN out = <<>>
  ELSE IF Head(t) \in DOMAIN FieldTokens
       THEN IF FieldTokens[Head(t)] = G
            THEN /\ Len(out) >= Len(v)
                 /\ SubSeq(out, 1, Len(v)) = v
                 /\ PlaceholdersRenderedAs(Tail(t), SubSeq(out, Len(v) + 1, Len(out)), G, v)
            ELSE \E k \in 0..Len(out) :
                   PlaceholdersRenderedAs(Tail(t), SubSeq(out, k + 1, Len(out)), G, v)
       ELSE /\ out # <<>>
            /\ Head(out) = Head(t)
            /\ PlaceholdersRenderedAs(Tail(t), Tail(out), G, v)

\* The step emits the condition of setter sci, which has a message template.
EmitsSetterMessage ==
  /\ AtSetter
  /\ ~sh.setConditions[sci].condition.message.nil
  /\ Len(rsp'.conditions) = Len(rsp.conditions) + 1
  /\ log' = log
\* The step emits the event of createEvents entry cei.
EmitsEvent ==
  /\ AtEvent
  /\ Len(rsp'.results) = Len(rsp.results) + 1

\* The matchers of the hook in progress that captured group G.
Capturing(G) == {i \in 1..Len(matchResults) : G \in DOMAIN matchResults[i].mcGroups}
CapturedGroupNames == UNION {DOMAIN matchResults[i].mcGroups : i \in 1..Len(matchResults)}
\* The value the last of them captured.
LastCaptured(G) ==
  matchResults[CHOOSE i \in Capturing(G) : \A j \in Capturing(G) : j <= i].mcGroups[G]

\* C5 as stated: whenever a fired hook emits a templated message, every
\* placeholder of a group G is rendered as the value v that any one of the
\* hook's matchers captured for G.
C5_RenderedAsAnyCapturedValue ==
  [][/\ EmitsSetterMessage
        => \A G \in CapturedGroupNames : \A i \in Capturing(G) :
             PlaceholdersRenderedAs(sh.setConditions[sci].condition.message.v,
                                    LastCondition(rsp').message.v, G,
                                    matchResults[i].mcGroups[G])
     /\ EmitsEvent
        => \A G \in CapturedGroupNames : \A i \in Capturing(G) :
             PlaceholdersRenderedAs(sh.createEvents[cei].event.message,
                                    rsp'.results[Len(rsp'.results)].message, G,
                                    matchResults[i].mcGroups[G])]_vars

\* C5 amended: whenever a fired hook emits a templated message, every
\* placeholder of a group G is rendered as the value captured for G by the
\* last matcher of the hook that captured G.
C5_RenderedAsLastCapturedValue ==
  [][/\ EmitsSetterMessage
        => \A G \in CapturedGroupNames :
             PlaceholdersRenderedAs(sh.setConditions[sci].condition.message.v,
                                    LastCondition(rsp').message.v, G, LastCaptured(G))
     /\ EmitsEvent
        => \A G \in CapturedGroupNames :
             PlaceholdersRenderedAs(sh.createEvents[cei].event.message,
                                    rsp'.results[Len(rsp'.results)].message, G,
                                    LastCaptured(G))]_vars

\* Both matchers of the hook captured Error, with different values; the
\* condition and the event emitted carry the value of the second matcher.
C5_Witness ==
  /\ pc = "createEvents" /\ shi = 1 /\ cei = 2
  /\ Cardinality(Capturing("Error")) = 2
  /\ matchResults[1].mcGroups["Error"] = <<"some lower level error">>
  /\ matchResults[2].mcGroups["Error"] = <<"another error">>
  /\ rsp.conditions[1].message = PtrTo(<<"error: ", "another error">>)
  /\ rsp.results[1].message = <<"event: ", "another error">>

\* The last matcher evaluated in the hook in progress returned an error.
LastMatcherFailed ==
  matchResults # <<>> /\ matchResults[Len(matchResults)].err # NoErr
\* The MatchFailure conditions recorded for hook h (from 1).
MatchFailuresOf(h) ==
  {k \in 1..Len(rsp.conditions) :
     /\ rsp.conditions[k].reason = reasonMatchFailure
     /\ rsp.conditions[k].message.v[2] = ToString(h - 1)}

\* C6: a matcher error ends the matcher loop of its hook: one status-False
\* MatchFailure health condition naming the hook and the matcher is
\* appended, no matcher after it is evaluated, the hook is left without
\* processing its setConditions or createEvents, and the loop goes on with
\* the next hook, which starts afresh whatever failed before.  No hook ever
\* has more than one MatchFailure.
C6_MatcherErrorAbortsOnlyItsHook ==
  /\ [][/\ (pc = "matchers" /\ LastMatcherFailed')
           => /\ pc' = "afterMatchers" /\ ~allMatched' /\ shi' = shi
              /\ AppendsCondition
              /\ IsHealth(LastCondition(rsp'))
              /\ LastCondition(rsp').status = "STATUS_CONDITION_FALSE"
              /\ LastCondition(rsp').reason = "MatchFailure"
              /\ SubSeq(LastCondition(rsp').message.v, 2, 4)
                   = <<ToString(shi - 1), "matchConditionIndex:", ToString(mci - 1)>>
              /\ rsp'.results = rsp.results
        /\ (pc = "afterMatchers" /\ LastMatcherFailed)
           => /\ pc' = "hooks" /\ shi' = shi + 1
              /\ rsp' = rsp /\ conditionsSet' = conditionsSet
        /\ (pc = "hooks" /\ shi <= Len(Hooks))
           => /\ pc' = (IF Len(sh.matchers) >= 1 THEN "matchers" ELSE "afterMatchers")
              /\ shi' = shi /\ mci' = 1
              /\ matchResults' = <<>> /\ scGroups' = EmptyMap /\ ~allMatched'
              /\ rsp' = rsp]_vars
  /\ [](/\ \A i \in 1..(Len(matchResults) - 1) : matchResults[i].matched
        /\ \A h \in 1..Len(Hooks) : Cardinality(MatchFailuresOf(h)) <= 1
        /\ (pc = "afterMatchers" /\ LastMatcherFailed)
           => Cardinality(MatchFailuresOf(shi)) = 1)

\* The first matcher of the first hook failed, so its second matcher was
\* never evaluated and the hook emitted nothing but its MatchFailure; the
\* second hook then matched and is at its setConditions.
C6_Witness ==
  /\ pc = "setConditions" /\ shi = 2 /\ sci = 1
  /\ Len(Hooks[1].matchers) = 2 /\ Hooks[1].setConditions # <<>>
  /\ Len(rsp.conditions) = 1 /\ rsp.results = <<>>
  /\ rsp.conditions[1].reason = "MatchFailure"
  /\ SubSeq(rsp.conditions[1].message.v, 2, 4) = <<"0", "matchConditionIndex:", "0">>
  /\ errored
  /\ Len(matchResults) = 2 /\ EveryMatcherSucceeded

\* Setter sci of the hook in progress is not skipped and its template fails.
SetterRenderFails ==
  /\ AtSetter
  /\ ~(NonForceful(sh.setConditions[sci])
       /\ sh.setConditions[sci].condition.type \in conditionsSet)
  /\ templateMessage(sh.setConditions[sci].condition.message, scGroups).err # NoErr

\* C7: a setter whose template fails to render appends one status-False
\* SetConditionFailure health condition naming the hook and the setter and
\* emits nothing else; its type is not marked as set; and the loops go on:
\* every setter in turn, then every event in turn, then the next hook.
C7_SetterRenderFailureSkipsOnlyThatSetter ==
  [][/\ SetterRenderFails
        => /\ AppendsCondition
           /\ IsHealth(LastCondition(rsp'))
           /\ LastCondition(rsp').status = "STATUS_CONDITION_FALSE"
           /\ LastCondition(rsp').reason = "SetConditionFailure"
           /\ SubSeq(LastCondition(rsp').message.v, 1, 4)
                = <<"cannot set condition, statusConditionHookIndex:", ToString(shi - 1),
                    "setConditionIndex:", ToString(sci - 1)>>
           /\ conditionsSet' = conditionsSet
           /\ rsp'.results = rsp.results
           /\ errored'
     /\ AtSetter => (pc' = "setConditions" /\ sci' = sci + 1 /\ shi' = shi)
     /\ (pc = "setConditions" /\ sci > Len(sh.setConditions))
        => (pc' = "createEvents" /\ cei' = 1 /\ shi' = shi /\ rsp' = rsp)
     /\ AtEvent => (pc' = "createEvents" /\ cei' = cei + 1 /\ shi' = shi)
     /\ (pc = "createEvents" /\ cei > Len(sh.createEvents))
        => (pc' = "hooks" /\ shi' = shi + 1 /\ rsp' = rsp)]_vars

\* The first setter of the first hook failed to render; the second setter
\* of that hook, its last event and a setter of the second hook were all
\* emitted after the failure.
C7_Witness ==
  /\ pc = "done" /\ Len(Hooks) = 2
  /\ Len(rsp.conditions) >= 5
  /\ rsp.conditions[1].reason = "SetConditionFailure"
  /\ SubSeq(rsp.conditions[1].message.v, 1, 5)
       = <<"cannot set condition, statusConditionHookIndex:", "0",
           "setConditionIndex:", "0", "cannot parse template">>
  /\ rsp.conditions[2].type = "Second" /\ rsp.conditions[2].reason = "Fine"
  /\ rsp.conditions[5].type = "CustomReady"
  /\ \E i \in 1..Len(rsp.results) : rsp.results[i].message = <<"warned">>

\* The positions of the success health condition and of the failure health
\* conditions in a list of conditions.
SuccessPositions(conditions) ==
  {i \in 1..Len(conditions) :
     /\ IsHealth(conditions[i])
     /\ conditions[i].status = "STATUS_CONDITION_TRUE"
     /\ conditions[i].reason = "Available"}
FailurePositions(conditions) ==
  {i \in 1..Len(conditions) :
     IsHealth(conditions[i]) /\ conditions[i].status = "STATUS_CONDITION_FALSE"}
\* The failures RunFunction logs, one message per failure.
FailureMessages ==
  {"cannot get Function input from *v1.RunFunctionRequest",
   "cannot get observed XR from *v1.RunFunctionRequest",
   "cannot load extra-resources",
   "cannot match resources", "cannot set condition", "cannot create event"}
FailuresLogged(l) == {i \in 1..Len(l) : l[i] \in FailureMessages}

C9_HealthConditionIsLast ==
  pc = "done" => (rsp.conditions # <<>> /\ IsHealth(LastCondition(rsp)))

\* C9 amended: the conditions of every completed run contain a health
\* condition; on success it is the one success condition and it is the
\* final element, after every condition emitted by a setter; on failure
\* the health conditions are those appended where the failures occurred
\* and nothing is appended when the run completes.
C9_HealthConditionLastOnSuccess ==
  /\ [](pc = "done"
        => /\ \E i \in 1..Len(rsp.conditions) : IsHealth(rsp.conditions[i])
           /\ FailuresLogged(log) = {}
              => /\ IsHealth(LastCondition(rsp))
                 /\ PositionsOf(typeFunctionSuccess) = {Len(rsp.conditions)}
                 /\ SuccessPositions(rsp.conditions) = {Len(rsp.conditions)})
  /\ [][(pc' = "done" /\ pc = "hooks")
        => IF FailuresLogged(log) = {}
           THEN AppendsCondition /\ SuccessPositions(rsp'.conditions) = {Len(rsp'.conditions)}
           ELSE rsp' = rsp /\ FailurePositions(rsp.conditions) # {}]_vars

\* A completed run that failed: its failure health condition is followed
\* by setter conditions, the last of which ends the list.
C9_Witness ==
  /\ pc = "done"
  /\ FailuresLogged(log) # {}
  /\ Len(rsp.conditions) >= 3
  /\ IsHealth(rsp.conditions[1])
  /\ ~IsHealth(LastCondition(rsp))
  /\ LastCondition(rsp).type \in conditionsSet

\* The reason and the first words of the message of the failure condition
\* of each failure RunFunction logs.
ReasonOf(m) ==
  IF m = "cannot match resources" THEN "MatchFailure"
  ELSE IF m \in {"cannot set condition", "cannot create event"} THEN "SetConditionFailure"
  ELSE "InputFailure"
MessageHeadOf(m) ==
  IF m = "cannot match resources" THEN <<"cannot match resources, statusConditionHookIndex:",
                                         ToString(shi - 1), "matchConditionIndex:", ToString(mci - 1)>>
  ELSE IF m = "cannot set condition" THEN <<"cannot set condition, statusConditionHookIndex:",
                                            ToString(shi - 1), "setConditionIndex:", ToString(sci - 1)>>
  ELSE IF m = "cannot create event" THEN <<"cannot create event, statusConditionHookIndex:",
                                           ToString(shi - 1), "createEventIndex:", ToString(cei - 1)>>
  ELSE <<m>>
\* The failure conditions of a list, in the order of the list.
FailureConditions(conditions) ==
  SelectSeq(conditions, LAMBDA c : IsHealth(c) /\ c.status = "STATUS_CONDITION_FALSE")

\* C10: a step that meets a failure appends, in that very step, one
\* status-False health condition with the reason of the failure and a
\* message naming the place it occurred; no other step adds or changes a
\* failure condition and no step removes or reorders conditions.  So the
\* failure conditions are as many as the failures met, in the order they
\* were met, and the last of them is that of the last failure.
C10_FailureConditionsInRunOrder ==
  /\ [][/\ Len(rsp'.conditions) >= Len(rsp.conditions)
        /\ SubSeq(rsp'.conditions, 1, Len(rsp.conditions)) = rsp.conditions
        /\ IF FailuresLogged(log') # FailuresLogged(log)
           THEN /\ Cardinality(FailuresLogged(log')) = Cardinality(FailuresLogged(log)) + 1
                /\ SubSeq(log', 1, Len(log)) = log
                /\ AppendsCondition
                /\ IsHealth(LastCondition(rsp'))
                /\ LastCondition(rsp').status = "STATUS_CONDITION_FALSE"
                /\ LastCondition(rsp').reason = ReasonOf(log'[Len(log')])
                /\ LET head == MessageHeadOf(log'[Len(log')])
                   IN  /\ Len(LastCondition(rsp').message.v) > Len(head)
                       /\ SubSeq(LastCondition(rsp').message.v, 1, Len(head)) = head
                /\ FailureConditions(rsp'.conditions)
                     = Append(FailureConditions(rsp.conditions), LastCondition(rsp'))
           ELSE FailureConditions(rsp'.conditions) = FailureConditions(rsp.conditions)]_vars
  /\ [](Len(FailureConditions(rsp.conditions)) = Cardinality(FailuresLogged(log)))

\* A completed run that met a matcher failure, then a setter failure, then
\* two event failures: four failure conditions in that order, with setter
\* conditions in between.
C10_Witness ==
  /\ pc = "done"
  /\ Len(FailureConditions(rsp.conditions)) = 4
  /\ Len(rsp.conditions) > 4
  /\ LET f == FailureConditions(rsp.conditions)
     IN  /\ f[1].message.v[1] = "cannot match resources, statusConditionHookIndex:"
         /\ f[2].message.v[1] = "cannot set condition, statusConditionHookIndex:"
         /\ f[3].message.v[1] = "cannot create event, statusConditionHookIndex:"
         /\ f[4].message.v[1] = "cannot create event, statusConditionHookIndex:"
         /\ f[4].message.v[4] = "1"
         /\ f[4].message.v[5] = "cannot parse template"

\* C11: a returned response is either that of a full pass over all hooks,
\* or that of a fatal error and then it holds nothing but the condition of
\* the fatal error: no condition or event produced by an earlier hook.
C11_NoPartialResults ==
  pc = "done"
  => \/ shi = Len(Hooks) + 1
     \/ /\ rsp.results = <<>>
        /\ Len(rsp.conditions) = 1
        /\ rsp.conditions[1].reason = "InputFailure"

\* A returned response holding the condition and the event of the first
\* hook, and the InputFailure of the extra resources that the matcher of the
\* second hook could not load: the second hook was never evaluated.
C11_Witness ==
  /\ pc = "done" /\ shi = 2 /\ Len(Hooks) = 2
  /\ matchResults = <<>>
  /\ Len(rsp.conditions) = 2
  /\ rsp.conditions[1].type = "Second"
  /\ rsp.conditions[2].reason = "InputFailure"
  /\ rsp.conditions[2].message.v[1] = "cannot load extra-resources"
  /\ Len(rsp.results) = 1 /\ rsp.results[1].message = <<"warned">>
  /\ Hooks[2].setConditions # <<>>

\* The step about to be taken evaluates a matcher that includes the extra
\* resources while none are loaded: it calls getExtraResources.
CallsProvider ==
  /\ pc = "matchers"
  /\ Deref(sh.matchers[mci].includeExtraResources, FALSE)
  /\ extraResources.nil
\* The step about to be taken evaluates a matcher that includes the extra
\* resources when they are loaded already.
ReusesExtraResources ==
  /\ pc = "matchers"
  /\ Deref(sh.matchers[mci].includeExtraResources, FALSE)
  /\ ~extraResources.nil

\* C12: getExtraResources is called only by the step that evaluates a
\* matcher with includeExtraResources=true while nothing is loaded; after
\* that step either the run has returned or the extra resources are loaded
\* for good, so that no later step calls it again; every later matcher
\* that includes them is evaluated on the loaded ones; and unless such a
\* matcher is reached nothing is ever loaded.
C12_ProviderCalledOnceLazily ==
  [][/\ CallsProvider => (pc' = "done" \/ ~extraResources'.nil)
     /\ ~CallsProvider => extraResources' = extraResources
     /\ ReusesExtraResources
        => \E ordObs \in Perms(DOMAIN req.observed) :
             \E ordRs \in Perms(DOMAIN Selection(sh.matchers[mci], req.observed, XR,
                                                 extraResources, ordObs).rs) :
               LET r == matchResources(sh.matchers[mci], req.observed, XR, extraResources,
                                       ordObs, ordRs)
               IN  matchResults'[Len(matchResults')]
                     = [matched |-> r.m /\ r.err = NoErr, mcGroups |-> r.cg, err |-> r.err]]_vars

\* The second hook's matcher matched on the extra resources the first
\* hook's matcher had loaded.
C12_Witness ==
  /\ pc = "afterMatchers" /\ shi = 2
  /\ \E i \in 1..Len(Hooks[1].matchers) :
       Deref(Hooks[1].matchers[i].includeExtraResources, FALSE)
  /\ Len(sh.matchers) = 1
  /\ Deref(sh.matchers[1].includeExtraResources, FALSE)
  /\ ~extraResources.nil /\ extraResources.v # <<>>
  /\ Len(matchResults) = 1 /\ matchResults[1].matched
  /\ matchResults[1].mcGroups = ("Error" :> <<"extra error">>)

\* C13: every run returns; it returns a nil error; no result of the
\* response is fatal; and whatever failed is reported by a status-False
\* StatusTransformationSuccess condition of the response.
C13_AlwaysReturnsResponseAndNilError ==
  /\ <>(pc = "done")
  /\ [](returned.nil <=> pc # "done")
  /\ [](pc = "done"
        => /\ returned = PtrTo(NoErr)
           /\ \A i \in 1..Len(rsp.results) :
                rsp.results[i].severity \in {"SEVERITY_NORMAL", "SEVERITY_WARNING"}
           /\ FailuresLogged(log) # {} => FailurePositions(rsp.conditions) # {})

\* A returned run in which the extra resources could not be loaded after a
\* matcher of an earlier hook had failed: two failure conditions, the last
\* an InputFailure, and a nil error.
C13_Witness ==
  /\ pc = "done" /\ returned = PtrTo(NoErr)
  /\ shi = 2 /\ Len(Hooks) = 2
  /\ Cardinality(FailurePositions(rsp.conditions)) = 2
  /\ rsp.conditions[1].reason = "MatchFailure"
  /\ LastCondition(rsp).reason = "InputFailure"
  /\ LastCondition(rsp).message.v[1] = "cannot load extra-resources"

\* The step evaluates matcher mci of the hook in progress and RunFunction
\* goes on: the outcome is the last entry of matchResults in the next state.
EvaluatesMatcher == pc = "matchers" /\ pc' # "done"
Outcome == matchResults'[Len(matchResults')]
NoMatchNoError == [matched |-> FALSE, mcGroups |-> EmptyMap, err |-> NoErr]

\* The resource names of mc compile.
NamesCompile(mc) == \A i \in 1..Len(mc.resources) : ~CompileFails(mc.resources[i].name)
\* The objects mc selects, er being the extra resources: by key, the
\* observed resources and (if included) the extra resources with a key that
\* one of the names matches, and (if included) the composite.
SelectedKeys(mc, er) ==
  {k \in DOMAIN req.observed :
     \E i \in 1..Len(mc.resources) : MatchString(mc.resources[i].name, k)}
  \cup (IF Deref(mc.includeExtraResources, FALSE)
        THEN {ExtraKey(er.v[j]) : j \in {n \in 1..Len(er.v) :
                \E i \in 1..Len(mc.resources) :
                  MatchString(mc.resources[i].name, ExtraKey(er.v[n]))}}
        ELSE {})
  \cup (IF Deref(mc.includeCompositeAsResource, FALSE) THEN {compositeResourceKey} ELSE {})
\* mc has nothing to check: no object selected, or no condition predicate.
NothingToCheck(mc, er) ==
  NamesCompile(mc) /\ (SelectedKeys(mc, er) = {} \/ Len(mc.conditions) = 0)

ObjectAt(k, er) ==
  IF k = compositeResourceKey THEN XR
  ELSE IF k \in DOMAIN req.observed THEN req.observed[k]
  ELSE er.v[CHOOSE j \in 1..Len(er.v) :
              ExtraKey(er.v[j]) = k /\ \A n \in (j+1)..Len(er.v) : ExtraKey(er.v[n]) # k]
\* Each field that predicate p sets matches condition c: status and reason
\* by equality, message as a regular expression searched in the message.
FieldsMatch(p, c) ==
  /\ p.status.nil \/ p.status.v = c.status
  /\ p.reason.nil \/ p.reason.v = c.reason
  /\ p.message.nil \/ (~CompileFails(p.message.v) /\ MatchString(p.message.v, c.message))
\* The condition of type t of object o, if it has one.
HasCondition(o, t) == t \in DOMAIN o.conditions
\* The step evaluates a matcher of one predicate that selects one object.
OnePredicateOneObject(mc, er) ==
  EvaluatesMatcher /\ NamesCompile(mc) /\ Len(mc.conditions) = 1
  /\ Cardinality(SelectedKeys(mc, er)) = 1
TheObject(mc, er) == ObjectAt(CHOOSE k \in SelectedKeys(mc, er) : TRUE, er)

\* C15: an unset status, reason or message of a predicate is a wildcard:
\* on an object that has a condition of the predicate's type, the
\* predicate matches if and only if each field it sets matches that
\* condition; and a predicate that sets only its type matches every
\* object, with or without a condition of that type.
C15_UnsetFieldsAreWildcards ==
  [][OnePredicateOneObject(sh.matchers[mci], extraResources')
     => LET p == sh.matchers[mci].conditions[1]
            o == TheObject(sh.matchers[mci], extraResources')
        IN  /\ HasCondition(o, p.type)
               => (Outcome.matched <=> FieldsMatch(p, o.conditions[p.type]))
            /\ (p.status.nil /\ p.reason.nil /\ p.message.nil) => Outcome.matched]_vars

\* A predicate with only its type set, Ready, has matched resource-a,
\* which has no Ready condition, and the hook fires.
C15_Witness ==
  /\ pc = "setConditions" /\ sci = 1
  /\ sh.matchers[1].conditions = <<CM("Ready", Nil(""), Nil(""), Nil(<<>>))>>
  /\ SelectedKeys(sh.matchers[1], extraResources) = {KeyA}
  /\ ~HasCondition(req.observed[KeyA], "Ready")
  /\ matchResults[1].matched

\* C16: on an object without a condition of the predicate's type the
\* predicate is evaluated on status Unknown, empty reason and empty
\* message: it matches if and only if its set fields match those; so
\* {status Unknown, reason "", message ""} matches, and a predicate with
\* status True or False or with a non-empty reason does not.
C16_MissingConditionIsUnknown ==
  [][(/\ OnePredicateOneObject(sh.matchers[mci], extraResources')
      /\ ~HasCondition(TheObject(sh.matchers[mci], extraResources'),
                       sh.matchers[mci].conditions[1].type))
     => LET p == sh.matchers[mci].conditions[1]
        IN  /\ Outcome.matched
                 <=> FieldsMatch(p, [status |-> "Unknown", reason |-> "", message |-> <<>>])
            /\ (p.status = PtrTo("Unknown") /\ p.reason = PtrTo("") /\ p.message = PtrTo(<<>>))
               => Outcome.matched
            /\ (~p.status.nil /\ p.status.v \in {"True", "False"}) => ~Outcome.matched
            /\ (~p.reason.nil /\ p.reason.v # "") => ~Outcome.matched]_vars

\* The predicate {Ready, Unknown, "", ""} has matched the composite, which
\* has no condition at all, and the hook fires.
C16_Witness ==
  /\ pc = "setConditions" /\ sci = 1
  /\ sh.matchers[1].conditions = <<CM("Ready", PtrTo("Unknown"), PtrTo(""), PtrTo(<<>>))>>
  /\ SelectedKeys(sh.matchers[1], extraResources) = {compositeResourceKey}
  /\ XR.conditions = EmptyMap
  /\ matchResults[1].matched

RECURSIVE Concat(_)
\* The concatenation of a sequence of sequences.
Concat(ss) == IF ss = <<>> THEN <<>> ELSE Head(ss) \o Concat(Tail(ss))
\* The setConditions, and the createEvents, of all hooks in declared order.
AllSetConditions == Concat([h \in 1..Len(Hooks) |-> Hooks[h].setConditions])
AllCreateEvents == Concat([h \in 1..Len(Hooks) |-> Hooks[h].createEvents])
\* Condition c is one that setter cs emits; result r is one that event ce emits.
FromSetter(c, cs) ==
  /\ c.type = cs.condition.type
  /\ c.reason = cs.condition.reason
  /\ c.status = "STATUS_CONDITION_" \o (IF cs.condition.status = "True" THEN "TRUE"
                                        ELSE IF cs.condition.status = "False" THEN "FALSE"
                                        ELSE "UNKNOWN")
FromEvent(r, ce) ==
  /\ r.reason = ce.event.reason
  /\ r.severity = (IF ce.event.type = PtrTo("Warning") THEN "SEVERITY_WARNING"
                   ELSE "SEVERITY_NORMAL")
  /\ Len(r.message) = Len(ce.event.message)
  /\ r.message[1] = ce.event.message[1]

RECURSIVE ConditionsFollow(_, _)
\* The conditions cs are emitted by a subsequence of the setters ss.
ConditionsFollow(cs, ss) ==
  IF cs = <<>> THEN TRUE
  ELSE IF ss = <<>> THEN FALSE
  ELSE IF FromSetter(Head(cs), Head(ss)) THEN ConditionsFollow(Tail(cs), Tail(ss))
  ELSE ConditionsFollow(cs, Tail(ss))
RECURSIVE ResultsFollow(_, _)
\* The results rs are emitted by a subsequence of the events es.
ResultsFollow(rs, es) ==
  IF rs = <<>> THEN TRUE
  ELSE IF es = <<>> THEN FALSE
  ELSE IF FromEvent(Head(rs), Head(es)) THEN ResultsFollow(Tail(rs), Tail(es))
  ELSE ResultsFollow(rs, Tail(es))

\* The conditions of the response that are not health conditions.
SetterConditions(conditions) == SelectSeq(conditions, LAMBDA c : ~IsHealth(c))
\* How far RunFunction is within the hook in progress.
Phase(p) ==
  IF p = "hooks" THEN 0 ELSE IF p = "matchers" THEN 1 ELSE IF p = "afterMatchers" THEN 2
  ELSE IF p = "setConditions" THEN 3 ELSE 4

\* C17: the hook index never decreases and grows by one at a time; within
\* a hook the matchers come first, then the setConditions one after the
\* other, then the createEvents one after the other; a condition is only
\* emitted from the setter loop by the setter at hand and an event only
\* from the event loop by the event at hand.  So the conditions emitted by
\* setters are a subsequence of all hooks' setConditions in declared order
\* and the events a subsequence of all hooks' createEvents.
C17_DeclarationOrder ==
  /\ [](/\ ConditionsFollow(SetterConditions(rsp.conditions), AllSetConditions)
        /\ ResultsFollow(rsp.results, AllCreateEvents))
  /\ [][/\ shi' \in {shi, shi + 1}
        /\ (shi' = shi /\ pc' # "done") => Phase(pc') >= Phase(pc)
        /\ (shi' = shi + 1 /\ pc # "start") => (pc' = "hooks" /\ Phase(pc) \in {2, 4})
        /\ (pc = "setConditions" /\ pc' = "setConditions") => sci' = sci + 1
        /\ (pc = "createEvents" /\ pc' = "createEvents") => cei' = cei + 1
        /\ SetterConditions(rsp'.conditions) # SetterConditions(rsp.conditions)
           => /\ AtSetter
              /\ AppendsCondition
              /\ FromSetter(LastCondition(rsp'), sh.setConditions[sci])
        /\ rsp'.results # rsp.results
           => /\ AtEvent
              /\ rsp'.results = Append(rsp.results, rsp'.results[Len(rsp'.results)])
              /\ FromEvent(rsp'.results[Len(rsp'.results)], sh.createEvents[cei])]_vars

\* A returned run of two hooks that both fired: the conditions of the
\* first hook's setters come before those of the second hook's, and so do
\* the events.
C17_Witness ==
  /\ pc = "done" /\ Len(Hooks) = 2
  /\ Len(Hooks[1].setConditions) = 2 /\ Len(Hooks[1].createEvents) = 3
  /\ Len(Hooks[2].setConditions) = 2 /\ Len(Hooks[2].createEvents) = 2
  /\ Hooks[1].setConditions # Hooks[2].setConditions
  /\ LET cs == SetterConditions(rsp.conditions)
     IN  /\ Len(cs) = 2
         /\ FromSetter(cs[1], Hooks[1].setConditions[2])
         /\ FromSetter(cs[2], Hooks[2].setConditions[1])
  /\ Len(rsp.results) = 3
  /\ FromEvent(rsp.results[1], Hooks[1].createEvents[3])
  /\ FromEvent(rsp.results[2], Hooks[2].createEvents[1])
  /\ FromEvent(rsp.results[3], Hooks[2].createEvents[2])

\* The outcome of predicate i of mc on the object selected under key k.
Pair(mc, er, k, i) == match(mc.conditions[i], ObjectAt(k, er))
\* The (key, predicate index) pairs of mc, and those that match.
Pairs(mc, er) == SelectedKeys(mc, er) \X (1..Len(mc.conditions))
MatchingPairs(mc, er) == {kp \in Pairs(mc, er) : Pair(mc, er, kp[1], kp[2]).m}
\* The step evaluates, without error, a matcher whose type is one of types
\* and that selects some object and has some predicate.
Quantifies(mc, er, types) ==
  /\ EvaluatesMatcher
  /\ NamesCompile(mc)
  /\ SelectedKeys(mc, er) # {} /\ Len(mc.conditions) >= 1
  /\ Outcome.err = NoErr
  /\ mc.type \in types
\* g holds, for every group that a pair of ps captured, a value that one of
\* them captured for it, and nothing else.
UnionOfGroups(g, mc, er, ps) ==
  /\ DOMAIN g = UNION {DOMAIN Pair(mc, er, kp[1], kp[2]).cg : kp \in ps}
  /\ \A G \in DOMAIN g :
       \E kp \in ps : /\ G \in DOMAIN Pair(mc, er, kp[1], kp[2]).cg
                      /\ Pair(mc, er, kp[1], kp[2]).cg[G] = g[G]

\* C18: a matcher whose type is unset behaves as one of type
\* AllResourcesMatchAllConditions: with some object selected, some
\* predicate and no error, it matches if and only if every selected object
\* matches every predicate, and then its groups are the union of the
\* groups of all (object, predicate) pairs.
C18_AllResourcesMatchAllConditions ==
  [][Quantifies(sh.matchers[mci], extraResources',
                {Nil(""), PtrTo("AllResourcesMatchAllConditions")})
     => /\ Outcome.matched
             <=> MatchingPairs(sh.matchers[mci], extraResources')
                   = Pairs(sh.matchers[mci], extraResources')
        /\ Outcome.matched
             => UnionOfGroups(Outcome.mcGroups, sh.matchers[mci], extraResources',
                              Pairs(sh.matchers[mci], extraResources'))]_vars

\* A matcher of unset type has matched resource-a and resource-b on the
\* two predicates capturing Error and Other: both groups are captured.
C18_Witness ==
  /\ pc = "setConditions" /\ sci = 1
  /\ sh.matchers[1].type.nil
  /\ SelectedKeys(sh.matchers[1], extraResources) = {KeyA, KeyB}
  /\ Len(sh.matchers[1].conditions) = 2
  /\ matchResults[1].matched
  /\ DOMAIN matchResults[1].mcGroups = {"Error", "Other"}

\* C19: under AnyResourceMatchesAnyCondition, with some object selected,
\* some predicate and no error, the matcher matches if and only if some
\* selected object matches some predicate, and then its groups are exactly
\* those of one matching (object, predicate) pair.
C19_AnyResourceMatchesAnyCondition ==
  [][Quantifies(sh.matchers[mci], extraResources',
                {PtrTo("AnyResourceMatchesAnyCondition")})
     => /\ Outcome.matched <=> MatchingPairs(sh.matchers[mci], extraResources') # {}
        /\ Outcome.matched
             => \E kp \in MatchingPairs(sh.matchers[mci], extraResources') :
                  Outcome.mcGroups
                    = Pair(sh.matchers[mci], extraResources', kp[1], kp[2]).cg]_vars

\* Under AnyResourceMatchesAnyCondition resource-a and resource-b both
\* match both predicates, one capturing Error and one capturing Other; the
\* groups are those of the one pair (resource-b, Error) and no other.
C19_Witness ==
  /\ pc = "setConditions" /\ sci = 1
  /\ sh.matchers[1].type = PtrTo("AnyResourceMatchesAnyCondition")
  /\ SelectedKeys(sh.matchers[1], extraResources) = {KeyA, KeyB}
  /\ Len(sh.matchers[1].conditions) = 2
  /\ Cardinality(MatchingPairs(sh.matchers[1], extraResources)) = 4
  /\ matchResults[1].matched
  /\ matchResults[1].mcGroups = ("Error" :> <<"another error">>)

\* C20: under AnyResourceMatchesAllConditions, with some object selected,
\* some predicate and no error, the matcher matches if and only if one
\* selected object matches every predicate; predicates matched only by
\* different objects do not make it match.
C20_AnyResourceMatchesAllConditions ==
  [][Quantifies(sh.matchers[mci], extraResources',
                {PtrTo("AnyResourceMatchesAllConditions")})
     => (Outcome.matched
           <=> \E k \in SelectedKeys(sh.matchers[mci], extraResources') :
                 \A i \in 1..Len(sh.matchers[mci].conditions) :
                   Pair(sh.matchers[mci], extraResources', k, i).m)]_vars

\* Under AnyResourceMatchesAllConditions each of the two predicates is
\* matched by one resource, the first by resource-a only and the second by
\* resource-b only: the matcher has not matched, without error.
C20_Witness ==
  /\ pc = "afterMatchers"
  /\ sh.matchers[1].type = PtrTo("AnyResourceMatchesAllConditions")
  /\ SelectedKeys(sh.matchers[1], extraResources) = {KeyA, KeyB}
  /\ MatchingPairs(sh.matchers[1], extraResources) = {<<KeyA, 1>>, <<KeyB, 2>>}
  /\ matchResults = <<NoMatchNoError>>


\* The predicates of mc that the object selected under key k matches.
MatchedBy(mc, er, k) == {i \in 1..Len(mc.conditions) : Pair(mc, er, k, i).m}

\* C21: under AllResourcesMatchAnyCondition, with some object selected,
\* some predicate and no error, the matcher matches if and only if every
\* selected object matches at least one predicate, which may be a different
\* predicate for different objects; one object matching no predicate makes
\* the matcher not match.
C21_AllResourcesMatchAnyCondition ==
  [][Quantifies(sh.matchers[mci], extraResources',
                {PtrTo("AllResourcesMatchAnyCondition")})
     => (Outcome.matched
           <=> \A k \in SelectedKeys(sh.matchers[mci], extraResources') :
                 MatchedBy(sh.matchers[mci], extraResources', k) # {})]_vars

\* Under AllResourcesMatchAnyCondition resource-a matches only the first
\* predicate and resource-b only the second: the matcher has matched.
C21_Witness ==
  /\ pc = "setConditions" /\ sci = 1
  /\ sh.matchers[1].type = PtrTo("AllResourcesMatchAnyCondition")
  /\ SelectedKeys(sh.matchers[1], extraResources) = {KeyA, KeyB}
  /\ MatchingPairs(sh.matchers[1], extraResources) = {<<KeyA, 1>>, <<KeyB, 2>>}
  /\ matchResults[1].matched

\* Under AllResourcesMatchAnyCondition resource-a matches a predicate and
\* resource-b matches none: the matcher has not matched, without error.
C21_WitnessOneUnmatched ==
  /\ pc = "afterMatchers"
  /\ sh.matchers[1].type = PtrTo("AllResourcesMatchAnyCondition")
  /\ SelectedKeys(sh.matchers[1], extraResources) = {KeyA, KeyB}
  /\ MatchingPairs(sh.matchers[1], extraResources) = {<<KeyA, 1>>}
  /\ matchResults = <<NoMatchNoError>>

\* The type of event ce is unset, Normal or Warning.
EventTypeValid(ce) == ce.event.type.nil \/ ce.event.type.v \in {"Normal", "Warning"}
\* The message of event ce renders with the groups of the hook in progress.
EventRenders(ce) ==
  DOMAIN scGroups = {} \/ (~ParseFails(ce.event.message) /\ ~ExecuteFails(ce.event.message))
\* The step appends the failure condition of createEvents entry cei and
\* emits no event.
RecordsEventFailure ==
  /\ rsp'.results = rsp.results
  /\ Len(rsp'.conditions) = Len(rsp.conditions) + 1
  /\ IsHealth(LastCondition(rsp'))
  /\ LastCondition(rsp').status = "STATUS_CONDITION_FALSE"
  /\ LastCondition(rsp').reason = "SetConditionFailure"
  /\ SubSeq(LastCondition(rsp').message.v, 1, 4) = MessageHeadOf("cannot create event")
  /\ errored'

\* C22: a fired hook goes from its setters to its first createEvent and
\* leaves the createEvents only after the last one, each step attempting
\* the next one; an event of valid type whose message renders is appended
\* to the results whether or not an equal result is already there, an unset
\* type giving severity Normal; an event of another type emits nothing and
\* records a failure; in both cases the hook goes on with the next event.
C22_EveryEventAttempted ==
  /\ [][(pc = "setConditions" /\ pc' # "setConditions")
          => (pc' = "createEvents" /\ cei' = 1 /\ shi' = shi)]_vars
  /\ [][(pc = "createEvents" /\ pc' # "createEvents")
          => (cei = Len(sh.createEvents) + 1 /\ rsp' = rsp)]_vars
  /\ [][AtEvent
          => /\ cei' = cei + 1 /\ pc' = "createEvents" /\ shi' = shi
             /\ IF EventTypeValid(sh.createEvents[cei]) /\ EventRenders(sh.createEvents[cei])
                THEN /\ Len(rsp'.results) = Len(rsp.results) + 1
                     /\ SubSeq(rsp'.results, 1, Len(rsp.results)) = rsp.results
                     /\ FromEvent(rsp'.results[Len(rsp'.results)], sh.createEvents[cei])
                     /\ rsp'.conditions = rsp.conditions
                     /\ errored' = errored
                ELSE RecordsEventFailure
             /\ ~EventTypeValid(sh.createEvents[cei]) => RecordsEventFailure
             /\ (sh.createEvents[cei].event.type.nil /\ EmitsEvent)
                  => rsp'.results[Len(rsp'.results)].severity = "SEVERITY_NORMAL"]_vars

\* Two fired hooks: the first declares the same event twice and both are
\* emitted, equal; the second declares an event of type Bogus, which left a
\* failure condition and no event, and the Warning event declared after it
\* was still emitted.
C22_Witness ==
  /\ pc = "done"
  /\ Len(Hooks) = 2
  /\ Hooks[1].createEvents = <<EvDefault, EvDefault>>
  /\ Hooks[2].createEvents = <<EvBogus, EvBadTemplate, EvWarning>>
  /\ Len(rsp.results) = 3
  /\ rsp.results[1] = rsp.results[2]
  /\ rsp.results[1].severity = "SEVERITY_NORMAL"
  /\ rsp.results[3].severity = "SEVERITY_WARNING"
  /\ \E i \in 1..Len(rsp.conditions) :
       /\ rsp.conditions[i].reason = "SetConditionFailure"
       /\ rsp.conditions[i].message.v
            = <<"cannot create event, statusConditionHookIndex:", "1", "createEventIndex:", "0",
                "invalid type", "Bogus", "must be one of [Normal, Warning]">>

\* Every predicate of mc matches the composite; some predicate does.
CompositeMatchesAll(mc, er) ==
  \A i \in 1..Len(mc.conditions) : Pair(mc, er, compositeResourceKey, i).m
CompositeMatchesSome(mc, er) ==
  \E i \in 1..Len(mc.conditions) : Pair(mc, er, compositeResourceKey, i).m

C23_WitnessMustSatisfy ==
  /\ pc = "afterMatchers"
  /\ sh.matchers[1].type = PtrTo("AllResourcesMatchAnyCondition")
  /\ SelectedKeys(sh.matchers[1], extraResources) = {KeyA, KeyB, compositeResourceKey}
  /\ MatchingPairs(sh.matchers[1], extraResources) = {<<KeyA, 1>>, <<KeyB, 1>>}
  /\ matchResults = <<NoMatchNoError>>

\* Under an Any* quantifier no name matches anything and the composite
\* satisfies the predicate: match.
C23_WitnessMaySatisfy ==
  /\ pc = "setConditions" /\ sci = 1
  /\ sh.matchers[1].type = PtrTo("AnyResourceMatchesAllConditions")
  /\ sh.matchers[1].resources = <<[name |-> <<"nothing">>]>>
  /\ req.observed = ObservedBoth
  /\ SelectedKeys(sh.matchers[1], extraResources) = {compositeResourceKey}
  /\ matchResults[1].matched

\* Setter cs is not skipped as already set.
NotSkipped(cs) == ~(cs.condition.type \in conditionsSet /\ NonForceful(cs))

\* C24: with no captured group, a setter that is not skipped emits its
\* condition with the message template as it is written, and an event of
\* valid type is emitted with its message template as it is written; no
\* failure is recorded, also when the template is not well-formed.
C24_NoGroupsLiteralMessage ==
  /\ [][(AtSetter /\ DOMAIN scGroups = {} /\ NotSkipped(sh.setConditions[sci]))
          => /\ Len(rsp'.conditions) = Len(rsp.conditions) + 1
             /\ FromSetter(LastCondition(rsp'), sh.setConditions[sci])
             /\ LastCondition(rsp').message = sh.setConditions[sci].condition.message
             /\ log' = log /\ errored' = errored]_vars
  /\ [][(AtEvent /\ DOMAIN scGroups = {} /\ EventTypeValid(sh.createEvents[cei]))
          => /\ Len(rsp'.results) = Len(rsp.results) + 1
             /\ rsp'.results[Len(rsp'.results)].message = sh.createEvents[cei].event.message
             /\ rsp'.conditions = rsp.conditions
             /\ log' = log /\ errored' = errored]_vars

\* A hook that fired without capturing anything has emitted the condition
\* and the event whose message is a template that does not parse, as
\* written; the only failure is that of the event of invalid type.
C24_Witness ==
  /\ pc = "done"
  /\ Len(Hooks) = 1
  /\ Hooks[1].setConditions = <<SBadTemplate, SSecond>>
  /\ ParseFails(SBadTemplate.condition.message.v)
  /\ rsp.conditions[1].type = "Second"
  /\ rsp.conditions[1].message = SBadTemplate.condition.message
  /\ ParseFails(EvBadTemplate.event.message)
  /\ \E i \in 1..Len(rsp.results) : rsp.results[i].message = EvBadTemplate.event.message
  /\ log = <<"cannot create event">>

\* The pairs of mc on the object selected under key k.
PairsOn(mc, k) == {k} \X (1..Len(mc.conditions))

\* C25: under AnyResourceMatchesAllConditions, with some object selected,
\* some predicate and no error, the groups of a matcher that matched are
\* the union of the groups that the predicates captured on one object that
\* satisfies them all, with the values captured on that object: no group
\* and no value comes from an object that matched only some predicates.
C25_GroupsOfTheSatisfyingResource ==
  [][(/\ Quantifies(sh.matchers[mci], extraResources',
                    {PtrTo("AnyResourceMatchesAllConditions")})
      /\ Outcome.matched)
     => \E k \in SelectedKeys(sh.matchers[mci], extraResources') :
          /\ MatchedBy(sh.matchers[mci], extraResources', k)
               = 1..Len(sh.matchers[mci].conditions)
          /\ UnionOfGroups(Outcome.mcGroups, sh.matchers[mci], extraResources',
                           PairsOn(sh.matchers[mci], k))]_vars

\* Under AnyResourceMatchesAllConditions resource-a matches the first
\* predicate, capturing Error, and not the second; resource-b matches both:
\* the matcher has matched and Error is what resource-b captured.
C25_Witness ==
  /\ pc = "setConditions" /\ sci = 1
  /\ sh.matchers[1].type = PtrTo("AnyResourceMatchesAllConditions")
  /\ SelectedKeys(sh.matchers[1], extraResources) = {KeyA, KeyB}
  /\ MatchingPairs(sh.matchers[1], extraResources) = {<<KeyA, 1>>, <<KeyB, 1>>, <<KeyB, 2>>}
  /\ Pair(sh.matchers[1], extraResources, KeyA, 1).cg = ("Error" :> <<"some lower level error">>)
  /\ matchResults[1].matched
  /\ matchResults[1].mcGroups = ("Error" :> <<"another error">>)

\* The first predicate of mc that the object selected under key k matches.
FirstMatch(mc, er, k) ==
  CHOOSE i \in MatchedBy(mc, er, k) : \A j \in MatchedBy(mc, er, k) : i <= j
\* For every selected object, the pair of its first matching predicate.
FirstMatchingPairs(mc, er) == {<<k, FirstMatch(mc, er, k)>> : k \in SelectedKeys(mc, er)}

\* C26 as stated: under AllResourcesMatchAnyCondition the groups of a
\* matcher that matched are the union, over the selected objects, of the
\* groups of each object's first matching predicate only.
C26_GroupsOfFirstMatchingPredicates ==
  [][(/\ Quantifies(sh.matchers[mci], extraResources',
                    {PtrTo("AllResourcesMatchAnyCondition")})
      /\ Outcome.matched)
     => UnionOfGroups(Outcome.mcGroups, sh.matchers[mci], extraResources',
                      FirstMatchingPairs(sh.matchers[mci], extraResources'))]_vars

\* The predicates of mc that match the object under key k and capture G,
\* and the value that the last of them captures.
CapturingOn(mc, er, k, G) ==
  {i \in MatchedBy(mc, er, k) : G \in DOMAIN Pair(mc, er, k, i).cg}
LastCapturedOn(mc, er, k, G) ==
  Pair(mc, er, k, CHOOSE i \in CapturingOn(mc, er, k, G) :
                    \A j \in CapturingOn(mc, er, k, G) : j <= i).cg[G]

\* C26 amended: under AllResourcesMatchAnyCondition, with some object
\* selected, some predicate and no error, the groups of a matcher that
\* matched are the union, over the selected objects, of the groups of every
\* predicate that matches the object: the groups of further predicates
\* that also match the same object are included and overwrite those of
\* the same name, so that the value of a group is the one captured by the
\* last predicate that captures it on some object.
C26_GroupsOfEveryMatchingPredicate ==
  [][(/\ Quantifies(sh.matchers[mci], extraResources',
                    {PtrTo("AllResourcesMatchAnyCondition")})
      /\ Outcome.matched)
     => /\ UnionOfGroups(Outcome.mcGroups, sh.matchers[mci], extraResources',
                         MatchingPairs(sh.matchers[mci], extraResources'))
        /\ \A G \in DOMAIN Outcome.mcGroups :
             \E k \in SelectedKeys(sh.matchers[mci], extraResources') :
               /\ CapturingOn(sh.matchers[mci], extraResources', k, G) # {}
               /\ Outcome.mcGroups[G]
                    = LastCapturedOn(sh.matchers[mci], extraResources', k, G)]_vars

\* Under AllResourcesMatchAnyCondition resource-a matches two predicates
\* that capture different values for Error: the value is that of the
\* second predicate.
C26_WitnessOverwrite ==
  /\ pc = "setConditions" /\ sci = 1
  /\ sh.matchers[1].type = PtrTo("AllResourcesMatchAnyCondition")
  /\ SelectedKeys(sh.matchers[1], extraResources) = {KeyA}
  /\ Len(sh.matchers[1].conditions) = 2
  /\ Pair(sh.matchers[1], extraResources, KeyA, 1).cg = ("Error" :> <<"some lower level error">>)
  /\ Pair(sh.matchers[1], extraResources, KeyA, 2).cg
       = ("Error" :> <<Went, "some lower level error">>)
  /\ matchResults[1].matched
  /\ matchResults[1].mcGroups = ("Error" :> <<Went, "some lower level error">>)

\* Under AllResourcesMatchAnyCondition resource-a and resource-b match
\* both predicates, the first capturing Error and the second Other: the
\* groups hold Other as well, which no first matching predicate captured.
C26_Witness ==
  /\ pc = "setConditions" /\ sci = 1
  /\ sh.matchers[1].type = PtrTo("AllResourcesMatchAnyCondition")
  /\ SelectedKeys(sh.matchers[1], extraResources) = {KeyA, KeyB}
  /\ FirstMatchingPairs(sh.matchers[1], extraResources) = {<<KeyA, 1>>, <<KeyB, 1>>}
  /\ DOMAIN Pair(sh.matchers[1], extraResources, KeyA, 1).cg = {"Error"}
  /\ DOMAIN Pair(sh.matchers[1], extraResources, KeyB, 1).cg = {"Error"}
  /\ matchResults[1].matched
  /\ DOMAIN matchResults[1].mcGroups = {"Error", "Other"}

\* The names of the named groups of pattern p.
NamedGroups(p) == {GroupTokens[p[i]] : i \in {j \in 1..Len(p) : IsGroup(p[j])}} \ {""}

\* C27: a matcher of one predicate with a message pattern that has matched
\* its one object yields exactly one group per named group of the pattern,
\* an unnamed group adding none; and with no group captured the setter's
\* message is its template as written.
C27_OnlyNamedGroupsCaptured ==
  /\ [][(/\ OnePredicateOneObject(sh.matchers[mci], extraResources')
         /\ ~sh.matchers[mci].conditions[1].message.nil
         /\ Outcome.matched)
        => DOMAIN Outcome.mcGroups = NamedGroups(sh.matchers[mci].conditions[1].message.v)]_vars
  /\ [][(/\ AtSetter
         /\ Len(sh.matchers) = 1 /\ Len(sh.matchers[1].conditions) = 1
         /\ ~sh.matchers[1].conditions[1].message.nil
         /\ NamedGroups(sh.matchers[1].conditions[1].message.v) = {}
         /\ NotSkipped(sh.setConditions[sci]))
        => LastCondition(rsp').message = sh.setConditions[sci].condition.message]_vars

\* A predicate whose pattern has one unnamed group has matched resource-a:
\* the groups hold an entry of empty name, and the setter's template was
\* executed, its placeholder printing "<no value>".
C27_Witness ==
  /\ pc = "createEvents" /\ cei = 1
  /\ Len(sh.matchers[1].conditions) = 1
  /\ sh.matchers[1].conditions[1].message = PtrTo(<<Went, "(.+)">>)
  /\ SelectedKeys(sh.matchers[1], extraResources) = {KeyA}
  /\ matchResults[1].mcGroups = ("" :> <<"some lower level error">>)
  /\ sh.setConditions[1].condition.message = PtrTo(<<"error: ", "{{ .Error }}">>)
  /\ rsp.conditions[1].message = PtrTo(<<"error: ", "<no value>">>)

\* What RunFunction records of matchResources' return r for a matcher.
Recorded(r) == [matched |-> r.m /\ r.err = NoErr, mcGroups |-> r.cg, err |-> r.err]
\* What evaluating matcher mc can record, over every order in which the
\* observed resources and the selection may be enumerated.
PossibleOutcomes(mc, er) ==
  UNION {{Recorded(matchResources(mc, req.observed, XR, er, ordObs, ordRs)) :
            ordRs \in Perms(DOMAIN Selection(mc, req.observed, XR, er, ordObs).rs)} :
         ordObs \in Perms(DOMAIN req.observed)}

\* C28: the result of a run is the same for every enumeration order of the
\* selected resources.  The rest of RunFunction being a function of what
\* the matchers return, this is: whenever a matcher is evaluated, whether
\* it matches, its groups and its error are the same for every order.
C28_SameOutcomeForEveryOrder ==
  [][EvaluatesMatcher
       => PossibleOutcomes(sh.matchers[mci], extraResources') = {Outcome}]_vars

\* A hook whose matcher, under AnyResourceMatchesAnyCondition, captures
\* Error from resource-a or resource-b, whichever is enumerated first.
C28_CaptureRequest ==
  Request(TRUE, TRUE,
          <<Hook(<<Matcher(PtrTo(AnyResourceMatchesAnyCondition), <<<<"resource-">>>>,
                           <<CaptureError>>, Nil(FALSE), Nil(FALSE))>>,
                 <<SReady>>, <<EvDefault>>)>>,
          ObservedBoth, ContextAbsent)
\* A hook whose matcher, under AnyResourceMatchesAnyCondition, has a
\* predicate that only resource-b matches and then one that does not compile.
C28_InvalidRegexRequest ==
  Request(TRUE, TRUE,
          <<Hook(<<Matcher(PtrTo(AnyResourceMatchesAnyCondition), <<<<"resource-">>>>,
                           <<CM("Synced", Nil(""), Nil(""), PtrTo(<<Went, "another error">>)),
                             CM("Synced", PtrTo("False"), Nil(""),
                                PtrTo(<<"a bad regex ", "(?!)">>))>>,
                           Nil(FALSE), Nil(FALSE))>>,
                 <<SReady>>, <<EvDefault>>)>>,
          ObservedBoth, ContextAbsent)

\* Two returns of the same request: the emitted message renders the error
\* of resource-a in one and that of resource-b in the other.
C28_Witness ==
  /\ pc = "done" /\ req = C28_CaptureRequest
  /\ rsp.conditions[1].message = PtrTo(<<"error: ", "some lower level error">>)
  /\ rsp.results[1].message = <<"event: ", "some lower level error">>
C28_WitnessOtherOrder ==
  /\ pc = "done" /\ req = C28_CaptureRequest
  /\ rsp.conditions[1].message = PtrTo(<<"error: ", "another error">>)
  /\ rsp.results[1].message = <<"event: ", "another error">>
\* Two returns of the same request: one reports success, the other the
\* failure to compile.
C28_WitnessSuccess ==
  /\ pc = "done" /\ req = C28_InvalidRegexRequest
  /\ Len(rsp.conditions) = 2
  /\ LastCondition(rsp).reason = "Available"
C28_WitnessFailure ==
  /\ pc = "done" /\ req = C28_InvalidRegexRequest
  /\ Len(rsp.conditions) = 1
  /\ LastCondition(rsp).reason = "MatchFailure"

\* The setter at hand fails to render: the step logs the failure.
SetterFails == AtSetter /\ log' # log

\* C29: the types marked as set are at every point exactly the types of the
\* conditions that setters have emitted so far in the run; none is marked
\* when the run starts, the marking only grows, and a setter that fails to
\* render leaves it as it is, so that a later setter of a type not yet
\* marked, forceful or not, emits its condition if it renders.
C29_MarkedIffEmitted ==
  /\ [](pc = "start" => conditionsSet = {})
  /\ [](conditionsSet = EmittedTypes(SetterConditions(rsp.conditions)))
  /\ [][conditionsSet \subseteq conditionsSet']_vars
  /\ [][SetterFails => conditionsSet' = conditionsSet]_vars
  /\ [][(/\ AtSetter
         /\ sh.setConditions[sci].condition.type \notin conditionsSet
         /\ ~SetterFails)
        => /\ Len(rsp'.conditions) = Len(rsp.conditions) + 1
           /\ FromSetter(LastCondition(rsp'), sh.setConditions[sci])
           /\ conditionsSet' = conditionsSet \cup {sh.setConditions[sci].condition.type}]_vars

\* The first setter of type Second failed to render and left the type
\* unmarked; the non-forceful setter of type Second after it has emitted its
\* condition and the type is marked.
C29_Witness ==
  /\ pc = "createEvents" /\ cei = 1
  /\ sh.setConditions = <<SBadTemplate, SSecond>>
  /\ NonForceful(SSecond)
  /\ Len(rsp.conditions) = 2
  /\ rsp.conditions[1].reason = "SetConditionFailure"
  /\ FromSetter(rsp.conditions[2], SSecond)
  /\ conditionsSet = {"Second"}
  /\ log = <<"cannot set condition">>

\* The message pattern of predicate p does not compile.
InvalidMessage(p) == ~p.message.nil /\ CompileFails(p.message.v)
\* Condition c passes the reason and status checks of predicate p.
PassesReasonAndStatus(p, c) ==
  /\ p.reason.nil \/ p.reason.v = c.reason
  /\ p.status.nil \/ p.status.v = c.status
\* The pairs of mc whose predicate has a pattern that does not compile and
\* whose object passes that predicate's reason and status checks.
CompilingPairs(mc, er) ==
  {kp \in Pairs(mc, er) :
     /\ InvalidMessage(mc.conditions[kp[2]])
     /\ PassesReasonAndStatus(mc.conditions[kp[2]],
                              GetCondition(ObjectAt(kp[1], er), mc.conditions[kp[2]].type))}

\* C30: a matcher whose resource names compile fails only if some selected
\* object passes the reason and status checks of a predicate whose message
\* pattern does not compile; when there is no such pair (nothing selected,
\* or reason or status differ on every object) the evaluation records no
\* failure, a matcher all of whose predicates have such a pattern is merely
\* unmatched, and the run of a hook with that one matcher reports success.
C30_RegexCompiledAfterReasonAndStatus ==
  /\ [][(EvaluatesMatcher /\ NamesCompile(sh.matchers[mci]))
        => /\ Outcome.err # NoErr
                => CompilingPairs(sh.matchers[mci], extraResources') # {}
           /\ CompilingPairs(sh.matchers[mci], extraResources') = {}
                => /\ rsp' = rsp /\ log' = log /\ errored' = errored
                   /\ (\A i \in 1..Len(sh.matchers[mci].conditions) :
                         InvalidMessage(sh.matchers[mci].conditions[i]))
                        => (Outcome = NoMatchNoError /\ pc' = "afterMatchers")]_vars
  /\ []((/\ pc = "done"
         /\ NamesCompile(Hooks[1].matchers[1])
         /\ CompilingPairs(Hooks[1].matchers[1], extraResources) = {})
        => (Len(rsp.conditions) >= 1 /\ LastCondition(rsp).reason = "Available"))

\* A matcher whose one predicate has status True and a message pattern
\* that does not compile has been evaluated on resource-a, whose status is
\* False: no failure, no match, and the run has reported success.
C30_Witness ==
  /\ pc = "done"
  /\ Len(Hooks[1].matchers[1].conditions) = 1
  /\ InvalidMessage(Hooks[1].matchers[1].conditions[1])
  /\ Hooks[1].matchers[1].conditions[1].status = PtrTo("True")
  /\ SelectedKeys(Hooks[1].matchers[1], extraResources) = {KeyA}
  /\ req.observed[KeyA].conditions["Synced"].status = "False"
  /\ Hooks[1].matchers[1].conditions[1].type = "Synced"
  /\ matchResults = <<NoMatchNoError>>
  /\ log = <<>>
  /\ rsp.conditions = <<ConditionTrue(typeFunctionSuccess, reasonAvailable)>>
====
